---- MODULE Spec2Model ----
(***************************************************************************)
(* A model of tja2fumen: the TJA course parser (parse_tja_course_data),    *)
(* the TJA splitter (split_tja_lines_into_courses), the TJA -> fumen       *)
(* converter (preprocessTJAMeasures, convertTJAToFumen) and the fumen      *)
(* binary codec (parse_fumen, read_struct, write_fumen).                   *)
(*                                                                         *)
(* Each component has its own specification (SpecParser, SpecSplit,        *)
(* SpecConv, SpecCodec) over the one set of variables; a specification     *)
(* leaves the variables of the other components at their initial values.   *)
(***************************************************************************)
EXTENDS Integers, Sequences, FiniteSets, TLC

\* ------------------------------------------------------------------------
\* Bounds of the model
\* ------------------------------------------------------------------------
\* lines of a course drawn freely from ParserAlphabet.
MaxLines == 3
\* lines of the #N section of a course with one branch point (the #E and #M
\* sections hold one line less).
MaxSection == 2

\* ------------------------------------------------------------------------
\* Constant tables (tja2fumen.constants, tja2fumen.types)
\* ------------------------------------------------------------------------
\* The three branches of a course, in the order the course's dict holds them.
BRANCH_NAMES == <<"normal", "professional", "master">>

AllBranches == {"normal", "professional", "master"}

\* Note character -> note type.
TJA_NOTE_TYPES(c) ==
    CASE c = "0" -> "Blank"
      [] c = "1" -> "Don"
      [] c = "2" -> "Ka"
      [] c = "3" -> "DON"
      [] c = "4" -> "KA"
      [] c = "5" -> "Drumroll"
      [] c = "6" -> "DRUMROLL"
      [] c = "7" -> "Balloon"
      [] c = "8" -> "EndDRB"
      [] c = "9" -> "Kusudama"

\* TJAMeasure(): no notes, no events, nothing merged.
TJAMeasure == [notes |-> <<>>, events |-> <<>>, combined |-> <<>>]

\* TJAData(name, value, pos).
TJAData(name, value, pos) == [name |-> name, value |-> value, pos |-> pos]

\* A fresh TJACourse: one pre-allocated measure in each branch.
NewBranches == [b \in AllBranches |-> <<TJAMeasure>>]

\* ------------------------------------------------------------------------
\* Sequence helpers
\* ------------------------------------------------------------------------
Last(s) == s[Len(s)]

Front(s) == SubSeq(s, 1, Len(s) - 1)

Range(s) == {s[i] : i \in DOMAIN s}

VARIABLES
    \* ---- parse_tja_course_data ----
    data,               \* course.data
    idx_l,              \* lines processed so far (the loop's next idx_l)
    p_pc,               \* "lines", "done", "IndexError", "BranchMismatch"
    has_branches,
    current_branch,
    branch_condition,
    flag_levelhold,
    idx_m,
    idx_m_branchstart,
    branches,           \* course.branches
    h_idx_m,            \* history: idx_m at the latest #BRANCHSTART line, -1: none
    \* ---- preprocessTJAMeasures, convertTJAToFumen ----
    c_pc,               \* "start", "measures", "done", or the error raised
    tja,                \* the parsed TJA course handed to convertTJAToFumen
    tja_in,             \* history: tja as it was handed over
    c_idx_m,            \* measures converted so far (the loop's next idx_m)
    measureDurationPrev,
    currentDrumroll,    \* <<>> (None), or <<measure, note>>: the open note
    total_notes,
    tjaConverted,
    unknownHeaderSample,\* the process-wide header template
    h_base,             \* history: measureDurationBase of every sub-measure
    h_ends,             \* history: the notes closed by an EndDRB marker
    \* ---- split_tja_lines_into_courses ----
    s_pc,               \* "lines", "done", or the error raised
    lines,              \* the stripped, non-empty lines of the file
    s_idx,              \* lines processed so far
    parsed_tja,         \* <<>> (None), or the TJASong
    current_course,
    current_course_basename,
    song_bpm,
    song_offset,
    h_sel,              \* history: the last line that selected a course
    \* ---- parse_fumen, write_fumen ----
    k_pc,               \* "open", "parse", "write", "done", or the error raised
    file,               \* the bytes of the chart read
    k_pos,              \* file.tell()
    song,               \* the FumenCourse
    file_out,           \* the bytes written
    k_w,                \* measures written so far
    h_short             \* history: read_struct has padded a short read

parserVars == <<data, idx_l, p_pc, has_branches, current_branch, branch_condition,
                flag_levelhold, idx_m, idx_m_branchstart, branches, h_idx_m>>

convVars == <<c_pc, tja, tja_in, c_idx_m, measureDurationPrev, currentDrumroll,
              total_notes, tjaConverted, unknownHeaderSample, h_base, h_ends>>

splitVars == <<s_pc, lines, s_idx, parsed_tja, current_course,
               current_course_basename, song_bpm, song_offset, h_sel>>

codecVars == <<k_pc, file, k_pos, song, file_out, k_w, h_short>>

vars == <<parserVars, convVars, splitVars, codecVars>>

\* what an action of one component leaves alone: the other components.
NotParser == <<convVars, splitVars, codecVars>>

NotConv == <<parserVars, splitVars, codecVars>>

NotSplit == <<parserVars, convVars, codecVars>>

NotCodec == <<parserVars, convVars, splitVars>>

\* ========================================================================
\* parse_tja_course_data (src/src/tja2fumen/parsers.py)
\* ========================================================================

\* ---- the lines of course.data ------------------------------------------
\* A line after `re.match(r"^#([A-Z]+)(?:\s+(.+))?", line)`: a command line
\* carries its command and value (<<>> for no value; a value is held as its
\* ','-separated tokens), a note line carries its characters.
CommandLine(c, v) == [command |-> c, value |-> v, notes |-> <<>>]

NoteLine(chars) == [command |-> "None", value |-> <<>>, notes |-> chars]

\* commands that produce an event, each with the value the model gives it.
EventLines ==
    { CommandLine("GOGOSTART", <<>>), CommandLine("GOGOEND", <<>>),
      CommandLine("BARLINEON", <<>>), CommandLine("BARLINEOFF", <<>>),
      CommandLine("DELAY", <<"1">>), CommandLine("SCROLL", <<"2">>),
      CommandLine("BPMCHANGE", <<"120">>), CommandLine("MEASURE", <<"4/4">>) }

EventCommands == {l.command : l \in EventLines}

SectionLine == CommandLine("SECTION", <<>>)

BranchStartLines ==
    { CommandLine("BRANCHSTART", <<"r", "1", "2">>),
      CommandLine("BRANCHSTART", <<"p", "50", "75">>) }

OtherCommands == {"START", "END", "LEVELHOLD", "N", "E", "M", "BRANCHEND", "DUMMY"}

Cmd(c) == CommandLine(c, <<>>)

\* d.startswith('#BRANCH')
IsBranchLine(l) == l.command \in {"BRANCHSTART", "BRANCHEND"}

\* int(token), float(token) of the tokens the model's lines carry.
ParseNumber(tok) ==
    CASE tok = "1" -> 1
      [] tok = "2" -> 2
      [] tok = "50" -> 50
      [] tok = "75" -> 75
      [] tok = "120" -> 120

\* ---- the courses the model parses ----------------------------------------
SeqsUpTo(S, n) == UNION {[1..k -> S] : k \in 0..n}

\* (a) every course of up to MaxLines lines over ParserAlphabet
ParserAlphabet ==
    { NoteLine(<<"1", ",">>), NoteLine(<<",">>), NoteLine(<<"1", "0">>),
      NoteLine(<<"1", "0", "1">>), NoteLine(<<"1", "0", "2", "0", ",">>),
      Cmd("GOGOSTART"), CommandLine("BPMCHANGE", <<"120">>), SectionLine,
      CommandLine("BRANCHSTART", <<"p", "50", "75">>),
      Cmd("N"), Cmd("E"), Cmd("BRANCHEND"), Cmd("LEVELHOLD"), Cmd("START") }

FreeCourses == SeqsUpTo(ParserAlphabet, MaxLines)

\* (b) every course of one line, and of one line after an open measure
AllLines ==
    EventLines \cup BranchStartLines \cup {SectionLine}
      \cup {Cmd(c) : c \in OtherCommands}
      \cup {NoteLine(<<"2">>), NoteLine(<<"0", ",">>)}

ShortCourses ==
    {<<l>> : l \in AllLines} \cup {<<NoteLine(<<"1", "2">>), l>> : l \in AllLines}

\* (c) the courses with one branch point: lines before it, #BRANCHSTART, the
\* #N, #E and #M sections, lines after them
SectionAlphabetN ==
    {NoteLine(<<"1", ",">>), NoteLine(<<"1">>), Cmd("GOGOSTART")}

SectionAlphabet == {NoteLine(<<"1", ",">>), NoteLine(<<"1">>)}

BeforeBranch ==
    {<<>>, <<NoteLine(<<"1", ",">>)>>, <<Cmd("LEVELHOLD")>>, <<SectionLine>>,
     <<NoteLine(<<"1", ",">>), Cmd("LEVELHOLD")>>}

AfterBranch ==
    {<<>>, <<Cmd("BRANCHEND")>>, <<Cmd("BRANCHEND"), NoteLine(<<"1", ",">>)>>,
     <<Cmd("BRANCHEND"), NoteLine(<<"1">>)>>, <<Cmd("BRANCHEND"), Cmd("GOGOEND")>>,
     <<SectionLine>>, <<Cmd("BRANCHEND"), SectionLine, NoteLine(<<"1", ",">>)>>}

BranchCourses ==
    { pre \o <<CommandLine("BRANCHSTART", <<"r", "1", "2">>), Cmd("N")>> \o sN
          \o <<Cmd("E")>> \o sE \o <<Cmd("M")>> \o sM \o post :
        pre \in BeforeBranch, post \in AfterBranch,
        sN \in SeqsUpTo(SectionAlphabetN, MaxSection),
        sE \in SeqsUpTo(SectionAlphabet, MaxSection - 1),
        sM \in SeqsUpTo(SectionAlphabet, MaxSection - 1) }

ParserInputs == FreeCourses \cup ShortCourses \cup BranchCourses

\* ---- the loop body ------------------------------------------------------
\* (course.branches.keys() if current_branch == 'all' else [current_branch])
Targets(cb) == IF cb = "all" THEN BRANCH_NAMES ELSE <<cb>>

\* course.branches[b][m].notes += chars, then (a line ending in ',')
\* course.branches[b].append(TJAMeasure())
AddNotes(br, b, m, chars, ends) ==
    LET upd == [br[b] EXCEPT ![m + 1].notes = @ \o chars]
    IN  [br EXCEPT ![b] = IF ends THEN Append(upd, TJAMeasure) ELSE upd]

RECURSIVE LoopNotes(_, _, _, _, _, _)
\* the `for branch in ...` loop of a note line, from target i on: the branches
\* it leaves, and whether it ran through (FALSE: branch[idx_m] raised IndexError).
LoopNotes(br, tg, i, m, chars, ends) ==
    IF i > Len(tg) THEN [br |-> br, ok |-> TRUE]
    ELSE IF m >= Len(br[tg[i]]) THEN [br |-> br, ok |-> FALSE]
    ELSE LoopNotes(AddNotes(br, tg[i], m, chars, ends), tg, i + 1, m, chars, ends)

\* the `for branch in ...: pos = len(course.branches[branch][idx_m].notes)` loop:
\* pos is the value of the last target; -1 stands for the IndexError.
EventPos(br, tg, m) ==
    IF \E i \in 1..Len(tg) : m >= Len(br[tg[i]]) THEN -1
    ELSE Len(br[Last(tg)][m + 1].notes)

RECURSIVE LoopEvents(_, _, _, _, _)
\* the `for branch in ...: course.branches[branch][idx_m].events.append(...)` loop.
LoopEvents(br, tg, i, m, ev) ==
    IF i > Len(tg) THEN [br |-> br, ok |-> TRUE]
    ELSE IF m >= Len(br[tg[i]]) THEN [br |-> br, ok |-> FALSE]
    ELSE LoopEvents([br EXCEPT ![tg[i]][m + 1].events = Append(@, ev)],
                    tg, i + 1, m, ev)

\* the event of a command of the first group (all but SECTION and BRANCHSTART).
SimpleEvent(l, pos) ==
    CASE l.command = "GOGOSTART" -> TJAData("gogo", "1", pos)
      [] l.command = "GOGOEND" -> TJAData("gogo", "0", pos)
      [] l.command = "BARLINEON" -> TJAData("barline", "1", pos)
      [] l.command = "BARLINEOFF" -> TJAData("barline", "0", pos)
      [] l.command = "DELAY" -> TJAData("delay", ParseNumber(l.value[1]), pos)
      [] l.command = "SCROLL" -> TJAData("scroll", ParseNumber(l.value[1]), pos)
      [] l.command = "BPMCHANGE" -> TJAData("bpm", ParseNumber(l.value[1]), pos)
      [] l.command = "MEASURE" -> TJAData("measure", l.value[1], pos)

\* branch_condition = value.split(','), its thresholds converted: 'r' to int,
\* 'p' to float / 100 (held as <<numerator, 100>>).
BranchCondition(v) ==
    CASE v[1] = "r" -> <<v[1], <<ParseNumber(v[2]), 1>>, <<ParseNumber(v[3]), 1>>>>
      [] v[1] = "p" -> <<v[1], <<ParseNumber(v[2]), 100>>, <<ParseNumber(v[3]), 100>>>>
      [] OTHER -> v

SectionOf(c) ==
    CASE c = "N" -> "normal" [] c = "E" -> "professional" [] c = "M" -> "master"

\* the line the loop is at: course.data[idx_l]
CurLine == data[idx_l + 1]

AtLine == p_pc = "lines" /\ idx_l < Len(data)

\* ---- 1. a line of note data ---------------------------------------------
ParseNotes ==
    /\ AtLine
    /\ CurLine.notes # <<>>
    /\ LET notes == CurLine.notes
           ends == Last(notes) = ","
           chars == IF ends THEN Front(notes) ELSE notes
           r == LoopNotes(branches, Targets(current_branch), 1, idx_m, chars, ends)
       IN  /\ branches' = r.br
           /\ p_pc' = IF r.ok THEN "lines" ELSE "IndexError"
           /\ idx_m' = IF r.ok /\ ends THEN idx_m + 1 ELSE idx_m
    /\ idx_l' = idx_l + 1
    /\ UNCHANGED <<data, has_branches, current_branch, branch_condition,
                   flag_levelhold, idx_m_branchstart, h_idx_m>>
    /\ UNCHANGED NotParser

\* ---- 2. a command that produces an event --------------------------------
\* the tail of the branch: the event is appended to every target.
AppendEvent(ev, cb) ==
    LET r == LoopEvents(branches, Targets(cb), 1, idx_m, ev)
    IN  /\ branches' = r.br
        /\ p_pc' = IF r.ok THEN "lines" ELSE "IndexError"

ParseEvent ==
    /\ AtLine
    /\ CurLine.command \in EventCommands
    /\ LET pos == EventPos(branches, Targets(current_branch), idx_m)
       IN  IF pos < 0
           THEN p_pc' = "IndexError" /\ UNCHANGED branches
           ELSE AppendEvent(SimpleEvent(CurLine, pos), current_branch)
    /\ idx_l' = idx_l + 1
    /\ UNCHANGED <<data, has_branches, current_branch, branch_condition,
                   flag_levelhold, idx_m, idx_m_branchstart, h_idx_m>>
    /\ UNCHANGED NotParser

\* course.data[idx_l+1].startswith('#BRANCHSTART'); "IndexError" when #SECTION
\* is the last line.
NextStartsBranch ==
    IF idx_l + 2 > Len(data) THEN "IndexError"
    ELSE IF data[idx_l + 2].command = "BRANCHSTART" THEN "yes" ELSE "no"

ParseSection ==
    /\ AtLine
    /\ CurLine.command = "SECTION"
    /\ LET pos == EventPos(branches, Targets(current_branch), idx_m)
       IN  IF pos < 0 \/ NextStartsBranch = "IndexError"
           THEN /\ p_pc' = "IndexError"
                /\ UNCHANGED <<branches, current_branch>>
           ELSE IF NextStartsBranch = "yes"
           THEN /\ AppendEvent(TJAData("section", "None", pos), "all")
                /\ current_branch' = "all"
           ELSE /\ AppendEvent(TJAData("branch_start", branch_condition, pos),
                               current_branch)
                /\ UNCHANGED current_branch
    /\ idx_l' = idx_l + 1
    /\ UNCHANGED <<data, has_branches, branch_condition, flag_levelhold, idx_m,
                   idx_m_branchstart, h_idx_m>>
    /\ UNCHANGED NotParser

ParseBranchStart ==
    /\ AtLine
    /\ CurLine.command = "BRANCHSTART"
    /\ LET pos == EventPos(branches, Targets(current_branch), idx_m)
       IN  IF pos < 0
           THEN /\ p_pc' = "IndexError"
                /\ UNCHANGED <<branches, current_branch, branch_condition,
                               idx_m_branchstart>>
           ELSE IF flag_levelhold
           THEN UNCHANGED <<p_pc, branches, current_branch, branch_condition,
                            idx_m_branchstart>>
           ELSE /\ current_branch' = "all"
                /\ branch_condition' = BranchCondition(CurLine.value)
                /\ idx_m_branchstart' = idx_m
                /\ AppendEvent(TJAData("branch_start",
                                       BranchCondition(CurLine.value), pos), "all")
    /\ idx_l' = idx_l + 1
    /\ h_idx_m' = idx_m
    /\ UNCHANGED <<data, has_branches, flag_levelhold, idx_m>>
    /\ UNCHANGED NotParser

\* ---- 3. a command that produces no event --------------------------------
ParseCommand ==
    /\ AtLine
    /\ CurLine.command \in OtherCommands
    /\ LET c == CurLine.command
       IN  /\ current_branch' =
                 CASE c \in {"START", "END"} -> (IF has_branches THEN "all" ELSE "normal")
                   [] c \in {"N", "E", "M"} -> SectionOf(c)
                   [] c = "BRANCHEND" -> "all"
                   [] OTHER -> current_branch
           /\ flag_levelhold' =
                 CASE c \in {"START", "END"} -> FALSE
                   [] c = "LEVELHOLD" -> TRUE
                   [] OTHER -> flag_levelhold
           /\ idx_m' = IF c \in {"N", "E", "M"} THEN idx_m_branchstart ELSE idx_m
    /\ idx_l' = idx_l + 1
    /\ UNCHANGED <<data, p_pc, has_branches, branch_condition, idx_m_branchstart,
                   branches, h_idx_m>>
    /\ UNCHANGED NotParser

\* ---- after the loop ------------------------------------------------------
\* a variant of DropTrailing: the last measure is deleted whatever it holds.
DropTrailingAlways(branch) == Front(branch)

\* if not branch[-1].notes and not branch[-1].events: del branch[-1]
DropTrailing(branch) ==
    IF Last(branch).notes = <<>> /\ Last(branch).events = <<>>
    THEN Front(branch) ELSE branch

RECURSIVE NoteDataKeepsBlank(_, _)
\* NoteData without its `!= 'Blank'` filter.
NoteDataKeepsBlank(notes, i) ==
    IF i >= Len(notes) THEN <<>>
    ELSE <<TJAData("note", TJA_NOTE_TYPES(notes[i + 1]), i)>>
           \o NoteDataKeepsBlank(notes, i + 1)

RECURSIVE NoteData(_, _)
\* [TJAData('note', TJA_NOTE_TYPES[note], i) for i, note in enumerate(notes)
\*  if TJA_NOTE_TYPES[note] != 'Blank'], from index i on.
NoteData(notes, i) ==
    IF i >= Len(notes) THEN <<>>
    ELSE (IF TJA_NOTE_TYPES(notes[i + 1]) # "Blank"
          THEN <<TJAData("note", TJA_NOTE_TYPES(notes[i + 1]), i)>>
          ELSE <<>>) \o NoteData(notes, i + 1)

\* notes[0].pos >= events[0].pos: the event is taken before the note.
EventFirst(n, e) == n.pos >= e.pos

RECURSIVE MergeCombined(_, _)
\* the `while notes or events` loop: what it appends to measure.combined.
MergeCombined(notes, events) ==
    IF events # <<>> /\ notes # <<>>
    THEN IF EventFirst(notes[1], events[1])
         THEN <<events[1]>> \o MergeCombined(notes, Tail(events))
         ELSE <<notes[1]>> \o MergeCombined(Tail(notes), events)
    ELSE IF events # <<>>
    THEN <<events[1]>> \o MergeCombined(notes, Tail(events))
    ELSE IF notes # <<>>
    THEN <<notes[1]>> \o MergeCombined(Tail(notes), events)
    ELSE <<>>

\* one measure after the merge: events.pop(0) has emptied measure.events.
MergeMeasure(m) ==
    [m EXCEPT !.combined = @ \o MergeCombined(NoteData(m.notes, 0), m.events),
              !.events = <<>>]

\* BranchLengthsDiffer comparing two of the three branches only.
BranchLengthsDifferTwo(br) == Len(br["normal"]) # Len(br["professional"])

\* len(set([len(b) for b in course.branches.values()])) != 1
BranchLengthsDiffer(br) == Cardinality({Len(br[b]) : b \in AllBranches}) # 1

\* the end of course.data: the trailing measure is dropped, the measures are
\* merged, the branch lengths are compared.
ParseEnd ==
    LET kept == [b \in AllBranches |-> DropTrailing(branches[b])]
        merged == [b \in AllBranches |->
                     [i \in 1..Len(kept[b]) |-> MergeMeasure(kept[b][i])]]
    IN  /\ p_pc = "lines"
        /\ idx_l = Len(data)
        /\ branches' = merged
        /\ p_pc' = IF has_branches /\ BranchLengthsDiffer(merged)
                   THEN "BranchMismatch" ELSE "done"
        /\ UNCHANGED <<data, idx_l, has_branches, current_branch, branch_condition,
                       flag_levelhold, idx_m, idx_m_branchstart, h_idx_m>>
        /\ UNCHANGED NotParser

ParserInit ==
    /\ data \in ParserInputs
    /\ idx_l = 0
    /\ p_pc = "lines"
    /\ has_branches = (\E i \in DOMAIN data : IsBranchLine(data[i]))
    /\ current_branch = (IF has_branches THEN "all" ELSE "normal")
    /\ branch_condition = <<>>
    /\ flag_levelhold = FALSE
    /\ idx_m = 0
    /\ idx_m_branchstart = 0
    /\ branches = NewBranches
    /\ h_idx_m = -1

ParserNext ==
    \/ ParseNotes
    \/ ParseEvent
    \/ ParseSection
    \/ ParseBranchStart
    \/ ParseCommand
    \/ ParseEnd

ParserIdle ==
    /\ data = <<>>
    /\ idx_l = 0
    /\ p_pc = "idle"
    /\ has_branches = FALSE
    /\ current_branch = "normal"
    /\ branch_condition = <<>>
    /\ flag_levelhold = FALSE
    /\ idx_m = 0
    /\ idx_m_branchstart = 0
    /\ branches = NewBranches
    /\ h_idx_m = -1

\* ---- properties of parse_tja_course_data ----------------------------------
ParserReturned == p_pc = "done"

ParserEnded == p_pc \in {"done", "IndexError", "BranchMismatch"}

\* the course holds a '#BRANCH...' command.
ContainsBranchCommand ==
    \E i \in DOMAIN data : data[i].command \in {"BRANCHSTART", "BRANCHEND"}

\* C3: a course with a #BRANCH command that parse_tja_course_data returns from
\* has the same number of measures in its three branches, and a parse that
\* reaches the final check with different numbers raises the branch-mismatch
\* ValueError.
C3_BranchLengths ==
    /\ (ParserReturned /\ ContainsBranchCommand) =>
          /\ Len(branches["normal"]) = Len(branches["professional"])
          /\ Len(branches["professional"]) = Len(branches["master"])
    /\ (p_pc \in {"done", "BranchMismatch"} /\ ContainsBranchCommand
          /\ \E a, b \in AllBranches : Len(branches[a]) # Len(branches[b]))
         => p_pc = "BranchMismatch"

\* a branching course whose sections were written apart returns with three
\* branches of two measures or more.
C3_Witness ==
    /\ ParserReturned
    /\ ContainsBranchCommand
    /\ \E i \in DOMAIN data : data[i].command = "M"
    /\ Len(branches["normal"]) >= 2
    /\ branches["normal"] # branches["master"]

\* the lines of d after the #BRANCHSTART at s, up to the following #BRANCHEND
\* or the end of d.
BranchSpan(d, s) ==
    LET ends == {e \in (s + 1)..Len(d) : d[e].command = "BRANCHEND"}
        stop == IF ends = {} THEN Len(d) + 1
                ELSE CHOOSE e \in ends : \A f \in ends : e <= f
    IN  (s + 1)..(stop - 1)

\* the section line i of the span lies in: the last #N, #E or #M before it.
SectionAt(d, span, i) ==
    LET sel == {j \in span : j < i /\ d[j].command \in {"N", "E", "M"}}
    IN  IF sel = {} THEN "none"
        ELSE d[CHOOSE j \in sel : \A k \in sel : k <= j].command

\* the ','-terminated note lines of section c in the span.
SectionMeasures(d, span, c) ==
    Cardinality({i \in span : /\ d[i].notes # <<>>
                              /\ Last(d[i].notes) = ","
                              /\ SectionAt(d, span, i) = c})

\* d has a branch point with #N, #E and #M sections that hold different
\* numbers of ','-terminated measures.
SectionsMismatch(d) ==
    \E s \in DOMAIN d :
        /\ d[s].command = "BRANCHSTART"
        /\ LET span == BranchSpan(d, s)
           IN  /\ \A c \in {"N", "E", "M"} : \E i \in span : d[i].command = c
               /\ Cardinality({SectionMeasures(d, span, c) : c \in {"N", "E", "M"}}) # 1

\* C4: a course whose #N, #E and #M sections hold different numbers of
\* ','-terminated measures always ends in the branch-mismatch ValueError, never
\* in another error and never in a normal return.
C4_MismatchRaisesValueError ==
    (ParserEnded /\ SectionsMismatch(data)) => p_pc = "BranchMismatch"

NotesOf(c) == SelectSeq(c, LAMBDA x : x.name = "note")

EventsOf(c) == SelectSeq(c, LAMBDA x : x.name # "note")

\* combined holds each non-blank note of `notes` and each event of `events`
\* once, the notes ascending, the events in their order, and an event at p
\* before every note at a position >= p and after every note at one < p.
MergedInOrder(notes, events, combined) ==
    /\ EventsOf(combined) = events
    /\ LET ns == NotesOf(combined)
       IN  /\ \A j \in 1..(Len(ns) - 1) : ns[j].pos < ns[j + 1].pos
           /\ {<<n.pos, n.value>> : n \in Range(ns)}
                = {<<i, TJA_NOTE_TYPES(notes[i + 1])>> :
                     i \in {k \in 0..(Len(notes) - 1) :
                              TJA_NOTE_TYPES(notes[k + 1]) # "Blank"}}
           /\ Len(ns) = Cardinality({n.pos : n \in Range(ns)})
    /\ \A j, k \in DOMAIN combined :
          (combined[j].name # "note" /\ combined[k].name = "note") =>
             IF combined[k].pos >= combined[j].pos THEN j < k ELSE k < j

\* C5: the merge of every measure puts each note and each event once into
\* combined, notes ascending, events in recorded order, an event at p before
\* the notes at positions >= p and after the notes at positions < p.
C5_MergeOrder ==
    [][(p_pc = "lines" /\ p_pc' \in {"done", "BranchMismatch"}) =>
         \A b \in AllBranches : \A i \in 1..Len(branches'[b]) :
            MergedInOrder(branches[b][i].notes, branches[b][i].events,
                          branches'[b][i].combined)]_vars

\* the notes of a measure, as C6 states them: no note for a Blank character,
\* one note at the character's 0-based index for any other.
NotesAtIndex(notes, combined) ==
    /\ \A k \in 0..(Len(notes) - 1) :
          LET at == {j \in DOMAIN combined :
                       combined[j].name = "note" /\ combined[j].pos = k}
          IN  IF TJA_NOTE_TYPES(notes[k + 1]) = "Blank" THEN at = {}
              ELSE /\ Cardinality(at) = 1
                   /\ \A j \in at : combined[j].value = TJA_NOTE_TYPES(notes[k + 1])
    /\ \A j \in DOMAIN combined :
          combined[j].name = "note" => combined[j].pos \in 0..(Len(notes) - 1)

\* a course whose lines are all note data or event commands (no branch is
\* selected): every line goes to the normal branch.
PlainCourse ==
    \A i \in DOMAIN data :
        data[i].notes # <<>> \/ data[i].command \in EventCommands

RECURSIVE MeasureStrings(_, _, _)
\* the note strings of the measures of d from line i on, acc being the
\* characters of the open measure: a line ending in ',' closes the measure.
MeasureStrings(d, i, acc) ==
    IF i > Len(d) THEN <<acc>>
    ELSE IF d[i].notes = <<>> THEN MeasureStrings(d, i + 1, acc)
    ELSE IF Last(d[i].notes) = ","
    THEN <<acc \o Front(d[i].notes)>> \o MeasureStrings(d, i + 1, <<>>)
    ELSE MeasureStrings(d, i + 1, acc \o d[i].notes)

\* C6: in a parsed measure a Blank character gives no note and any other
\* character one note at its 0-based index in the measure's note string, the
\* string being the characters of all the measure's lines without the ','.
C6_NotesFromCharacters ==
    p_pc \in {"done", "BranchMismatch"} =>
      /\ \A b \in AllBranches : \A i \in 1..Len(branches[b]) :
            NotesAtIndex(branches[b][i].notes, branches[b][i].combined)
      /\ PlainCourse =>
            \A i \in 1..Len(branches["normal"]) :
               branches["normal"][i].notes = MeasureStrings(data, 1, <<>>)[i]

\* `10` then `1020,`: one measure, Don at 0, Don at 2, Ka at 4.
C6_Witness ==
    /\ ParserReturned
    /\ data = <<NoteLine(<<"1", "0">>), NoteLine(<<"1", "0", "2", "0", ",">>)>>
    /\ Len(branches["normal"]) = 1
    /\ branches["normal"][1].combined
         = <<TJAData("note", "Don", 0), TJAData("note", "Don", 2),
             TJAData("note", "Ka", 4)>>

\* C17: #N, #E and #M set idx_m to the measure index that was current at the
\* most recent #BRANCHSTART line before them, so that the first measure of
\* each of the three sections lands at the same index.
C17_RewindToBranchStart ==
    [][ (AtLine /\ CurLine.command \in {"N", "E", "M"} /\ h_idx_m >= 0)
          => idx_m' = h_idx_m ]_vars

\* the event ev has been appended to the measure at idx_m of branch b, at the
\* note position the measure had.
RecordedIn(b, ev_name, ev_value) ==
    /\ idx_m < Len(branches[b])
    /\ branches'[b][idx_m + 1].events =
         Append(branches[b][idx_m + 1].events,
                TJAData(ev_name, ev_value, Len(branches[b][idx_m + 1].notes)))

\* C18: a #SECTION line that is not immediately followed by #BRANCHSTART is
\* recorded, in the measure being written, as a branch_start event that
\* carries the condition of the most recently processed #BRANCHSTART and the
\* measure's current note position; one that is immediately followed by
\* #BRANCHSTART is recorded as a section event without value in all three
\* branches and makes 'all' the current branch.
C18_SectionRecorded ==
    [][ (AtLine /\ CurLine.command = "SECTION") =>
          /\ p_pc' = "lines"
          /\ IF idx_l + 2 <= Len(data) /\ data[idx_l + 2].command = "BRANCHSTART"
             THEN /\ current_branch' = "all"
                  /\ \A b \in AllBranches : RecordedIn(b, "section", "None")
             ELSE /\ current_branch' = current_branch
                  /\ \A b \in Range(Targets(current_branch)) :
                       RecordedIn(b, "branch_start", branch_condition)
      ]_vars

\* the note lines of d that end in ','.
Terminators(d) == {i \in DOMAIN d : d[i].notes # <<>> /\ Last(d[i].notes) = ","}

\* a note or an event is recorded after the last terminator of d.
RecordedAfterLast(d) ==
    \E i \in DOMAIN d :
        /\ \A t \in Terminators(d) : t < i
        /\ d[i].notes # <<>> \/ d[i].command \in EventCommands \cup {"SECTION"}

\* one measure per terminator, and one more for what follows the last.
MeasuresExpected(d) ==
    Cardinality(Terminators(d)) + (IF RecordedAfterLast(d) THEN 1 ELSE 0)

\* the course has no command that starts with #BRANCH.
NoBranchCommand == \A i \in DOMAIN data : ~IsBranchLine(data[i])

\* the course has no #N, #E or #M.
NoBranchSelector == \A i \in DOMAIN data : data[i].command \notin {"N", "E", "M"}

\* C19 as stated: in a course with no #BRANCH command the normal branch ends
\* with one measure per note line ending in ',', and one more when notes or
\* events were recorded after the last of them.
C19_MeasurePerTerminator ==
    (ParserReturned /\ NoBranchCommand)
        => Len(branches["normal"]) = MeasuresExpected(data)

\* C19, amended: in a course with no #BRANCH command and no #N, #E or #M the
\* normal branch ends with one measure per note line ending in ',', and one
\* more when notes or events were recorded after the last of them; each
\* measure holds the characters of its lines, so a measure left empty by a
\* bare ',' is kept, and only the pre-allocated trailing measure is dropped.
C19_MeasurePerTerminatorUnbranched ==
    (ParserReturned /\ NoBranchCommand /\ NoBranchSelector) =>
        /\ Len(branches["normal"]) = MeasuresExpected(data)
        /\ \A i \in 1..Len(branches["normal"]) :
             branches["normal"][i].notes = MeasureStrings(data, 1, <<>>)[i]

\* `,` then `1,` then #GOGOSTART: an empty measure, a measure with one note,
\* and a third measure that holds the event only.
C19_Witness ==
    /\ ParserReturned
    /\ data = <<NoteLine(<<",">>), NoteLine(<<"1", ",">>), Cmd("GOGOSTART")>>
    /\ Len(branches["normal"]) = 3
    /\ branches["normal"][1].notes = <<>>
    /\ branches["normal"][3].combined = <<TJAData("gogo", "1", 0)>>

\* C26: whenever the parser is at a line that reads or writes measures (note
\* data, an event command, #SECTION, #BRANCHSTART), idx_m is less than the
\* number of measures of every branch the line is applied to: no sequence of
\* lines makes the parser index past the end of a branch.
C26_MeasureIndexValid ==
    (AtLine /\ (CurLine.notes # <<>>
                  \/ CurLine.command \in EventCommands \cup {"SECTION", "BRANCHSTART"}))
        => \A b \in Range(Targets(current_branch)) : idx_m < Len(branches[b])

\* ========================================================================
\* preprocessTJAMeasures, convertTJAToFumen (src/tja2fumen/converters.py)
\* ========================================================================

\* ---- numbers ---------------------------------------------------------------
\* Durations and positions are floats in the code (milliseconds). The model
\* holds them exactly, as integers in units of 1/Scale ms: every subdivision
\* count of the model's measures divides Scale and every BPM of the model
\* divides 4 * 60000, so each quotient below is exact.
Scale == 3 * 8

\* float(int(x)) of a duration: truncation toward zero to whole milliseconds.
FloatInt(x) == IF x >= 0 THEN (x \div Scale) * Scale ELSE -(((-x) \div Scale) * Scale)

\* bool(value) of an event value (a string in the parser's events).
PyBool(v) == v # ""

\* ---- the converter's input -------------------------------------------------
\* a measure of tja['measures'] and an event of measure['events'].
TJAInputMeasure(d, ev) == [data |-> d, events |-> ev, length |-> <<4, 4>>]

TJAEvent(position, name, value) ==
    [position |-> position, name |-> name, value |-> value]

\* ---- preprocessTJAMeasures ---------------------------------------------------
RECURSIVE ConvNotes(_, _)
\* [{'pos': i, 'type': 'note', 'value': TJA_NOTE_TYPES[note]}
\*  for i, note in enumerate(measure['data']) if note != '0'], from index i on.
ConvNotes(d, i) ==
    IF i >= Len(d) THEN <<>>
    ELSE (IF d[i + 1] # "0"
          THEN <<[pos |-> i, type |-> "note", value |-> TJA_NOTE_TYPES(d[i + 1])]>>
          ELSE <<>>) \o ConvNotes(d, i + 1)

\* [{'pos': e['position'], 'type': e['name'], 'value': e['value']} for e in events]
ConvEvents(ev) ==
    [i \in 1..Len(ev) |->
       [pos |-> ev[i].position, type |-> ev[i].name, value |-> ev[i].value]]

RECURSIVE Combine(_, _)
\* Step 1: the `while notes or events` loop.
Combine(notes, events) ==
    IF events # <<>> /\ notes # <<>>
    THEN IF notes[1].pos >= events[1].pos
         THEN <<events[1]>> \o Combine(notes, Tail(events))
         ELSE <<notes[1]>> \o Combine(Tail(notes), events)
    ELSE IF events # <<>>
    THEN <<events[1]>> \o Combine(notes, Tail(events))
    ELSE IF notes # <<>>
    THEN <<notes[1]>> \o Combine(Tail(notes), events)
    ELSE <<>>

\* a variant of NewSubMeasure: every sub-measure starts at position 0.
NewSubMeasureFromZero(bpm, scroll, gogo, measure, pos_start) ==
    [bpm |-> bpm, scroll |-> scroll, gogo |-> gogo,
     subdivisions |-> Len(measure.data), pos_start |-> 0, pos_end |-> 0,
     time_sig |-> measure.length, data |-> <<>>]

\* the dict a sub-measure starts as.
NewSubMeasure(bpm, scroll, gogo, measure, pos_start) ==
    [bpm |-> bpm, scroll |-> scroll, gogo |-> gogo,
     subdivisions |-> Len(measure.data), pos_start |-> pos_start, pos_end |-> 0,
     time_sig |-> measure.length, data |-> <<>>]

\* a variant of BpmAtStart: the running BPM changes, the open sub-measure
\* keeps the BPM it was opened with.
BpmAtStartKeepsOld(st, d) == [st EXCEPT !.currentBPM = d.value]

\* a bpm event at position 0: the open sub-measure takes the BPM.
BpmAtStart(st, d) ==
    [st EXCEPT !.currentBPM = d.value, !.measure_cur.bpm = d.value]

\* a bpm event at another position: the open sub-measure is closed at the
\* event's position and a new one opened there.
BpmMidMeasure(st, d, measure) ==
    [st EXCEPT !.currentBPM = d.value,
               !.measuresCorrected =
                   Append(@, [st.measure_cur EXCEPT !.pos_end = d.pos]),
               !.measure_cur =
                   NewSubMeasure(d.value, st.currentScroll, st.currentGogo,
                                 measure, d.pos)]

\* one element of `combined` in Step 2.
SplitStep(st, d, measure) ==
    CASE d.type = "note" ->
           [st EXCEPT !.measure_cur.data = Append(@, d)]
      [] d.type = "bpm" ->
           IF d.pos = 0 THEN BpmAtStart(st, d) ELSE BpmMidMeasure(st, d, measure)
      [] d.type = "scroll" ->
           [st EXCEPT !.currentScroll = d.value, !.measure_cur.scroll = d.value]
      [] d.type = "gogo" ->
           [st EXCEPT !.currentGogo = PyBool(d.value),
                      !.measure_cur.gogo = PyBool(d.value)]
      [] OTHER -> st

RECURSIVE SplitLoop(_, _, _, _)
\* Step 2: `for data in combined`, from element i on.
SplitLoop(st, combined, i, measure) ==
    IF i > Len(combined) THEN st
    ELSE SplitLoop(SplitStep(st, combined[i], measure), combined, i + 1, measure)

\* one iteration of `for measure in tja['measures']`.
PreprocessMeasure(st, measure) ==
    LET combined == Combine(ConvNotes(measure.data, 0), ConvEvents(measure.events))
        opened == [st EXCEPT !.measure_cur =
                      NewSubMeasure(st.currentBPM, st.currentScroll,
                                    st.currentGogo, measure, 0)]
        walked == SplitLoop(opened, combined, 1, measure)
    IN  [walked EXCEPT !.measuresCorrected =
            Append(@, [walked.measure_cur EXCEPT !.pos_end = Len(measure.data)])]

RECURSIVE PreprocessLoop(_, _, _)
PreprocessLoop(st, measures, i) ==
    IF i > Len(measures) THEN st
    ELSE PreprocessLoop(PreprocessMeasure(st, measures[i]), measures, i + 1)

preprocessTJAMeasures(t) ==
    PreprocessLoop([currentBPM |-> 0, currentScroll |-> 1, currentGogo |-> FALSE,
                    measure_cur |-> <<>>, measuresCorrected |-> <<>>],
                   t.measures, 1).measuresCorrected

\* ---- convertTJAToFumen ---------------------------------------------------------
default_note ==
    [type |-> "", pos |-> 0, item |-> 0, padding |-> 0,
     scoreInit |-> 0, scoreDiff |-> 0, duration |-> 0]

\* a branch of a measure: the integer keys 0, 1, ... of the dict are the
\* indices 1, 2, ... of `notes`.
default_branch == [length |-> 0, padding |-> 0, speed |-> 1, notes |-> <<>>]

default_measure ==
    [bpm |-> 0, fumenOffset |-> 0, gogo |-> FALSE, hidden |-> TRUE,
     padding1 |-> 0, branchInfo |-> <<-1, -1, -1, -1, -1, -1>>, padding2 |-> 0,
     normal |-> default_branch, advanced |-> default_branch,
     master |-> default_branch]

\* tja2fumen.constants.DIFFICULTY_BYTES: two header bytes per course name.
DifficultyCourses == {"Easy", "Oni"}

DIFFICULTY_BYTES(course) ==
    IF course = "Easy" THEN <<21, 255>> ELSE <<43, 26>>

\* tja2fumen.utils.computeSoulGaugeByte: a byte looked up from the note count.
computeSoulGaugeByte(n) == n % 256

\* tja2fumen.constants.unknownHeaderSample, restricted to the cells that
\* convertTJAToFumen reads or writes.
HeaderCells == {8, 9, 20}

unknownHeaderSampleInitial == [i \in HeaderCells |-> 0]

\* measureTJA['pos_end'] - measureTJA['pos_start']
measureLength(m) == m.pos_end - m.pos_start

\* measureRatio != 1.0
RatioIsNotOne(m) == m.subdivisions # 0 /\ measureLength(m) # m.subdivisions

\* 4 * 60_000 * measureSize * measureRatio / bpm, in units of 1/Scale ms.
measureDurationBase(m) ==
    IF m.subdivisions = 0
    THEN (4 * 60000 * Scale * m.time_sig[1]) \div (m.time_sig[2] * m.bpm)
    ELSE (4 * 60000 * Scale * m.time_sig[1] * measureLength(m))
             \div (m.time_sig[2] * m.subdivisions * m.bpm)

\* the adjustment for a BPM change at the next sub-measure.
measureDurationOf(ms, i) ==
    IF i # Len(ms) /\ ms[i].bpm # ms[i + 1].bpm
    THEN measureDurationBase(ms[i])
           - ((4 * 60000 * Scale) \div ms[i + 1].bpm
              - (4 * 60000 * Scale) \div ms[i].bpm)
    ELSE measureDurationBase(ms[i])

\* the divisions of one loop iteration that raise ZeroDivisionError.
DividesByZero(ms, i) ==
    \/ ms[i].bpm = 0
    \/ ms[i].time_sig[2] = 0
    \/ i # Len(ms) /\ ms[i].bpm # ms[i + 1].bpm /\ ms[i + 1].bpm = 0

\* the note currentDrumroll refers to (the dict is shared with the measure).
DrumrollNote(st) == st.ms[st.cur[1]].normal.notes[st.cur[2]]

SetDrumrollNote(st, n) ==
    [st EXCEPT !.ms[st.cur[1]].normal.notes[st.cur[2]] = n]

\* a variant of EndDRB: an end marker that finds nothing open is skipped.
EndDRBSkipsUnopened(st, note_pos) ==
    IF st.cur = <<>> THEN st
    ELSE LET n == DrumrollNote(st)
             d == IF "multimeasure" \notin DOMAIN n
                  THEN n.duration + (note_pos - n.pos)
                  ELSE n.duration + (note_pos - 0)
         IN  [SetDrumrollNote(st, [n EXCEPT !.duration = FloatInt(d)])
                EXCEPT !.cur = <<>>,
                       !.ends = Append(@, [start |-> st.cur, end |-> Len(st.ms),
                                           pos |-> note_pos])]

\* lines 155-166: the end marker of a drumroll or balloon.
EndDRB(st, note_pos) ==
    IF st.cur = <<>> THEN [st EXCEPT !.err = "AttributeError"]
    ELSE LET n == DrumrollNote(st)
             d == IF "multimeasure" \notin DOMAIN n
                  THEN n.duration + (note_pos - n.pos)
                  ELSE n.duration + (note_pos - 0)
         IN  [SetDrumrollNote(st, [n EXCEPT !.duration = FloatInt(d)])
                EXCEPT !.cur = <<>>,
                       !.ends = Append(@, [start |-> st.cur, end |-> Len(st.ms),
                                           pos |-> note_pos])]

\* the note of lines 173-177.
NewNote(t, value, note_pos) ==
    [default_note EXCEPT !.pos = note_pos, !.type = value,
                         !.scoreInit = t.scoreInit, !.scoreDiff = t.scoreDiff]

\* a variant of PopFirst: pop() takes the last value.
PopLast(balloon) == [value |-> Last(balloon), rest |-> Front(balloon)]

\* tja['metadata']['balloon'].pop(0): the value and what is left.
PopFirst(balloon) == [value |-> balloon[1], rest |-> Tail(balloon)]

\* a variant of EmitNote: the start of a drumroll or balloon stays in the
\* note count.
EmitNoteCountsStart(st, t, value, note_pos) ==
    LET here == <<Len(st.ms), st.note_counter + 1>>
        base == NewNote(t, value, note_pos)
        popped == PopFirst(st.balloon)
        isBalloon == value \in {"Balloon", "Kusudama"}
        isRoll == value \in {"Drumroll", "DRUMROLL"}
        note == IF isBalloon
                THEN base @@ [hits |-> popped.value, hitsPadding |-> 0]
                ELSE IF isRoll THEN base @@ [drumrollBytes |-> <<0, 0, 0, 0, 0, 0, 0, 0>>]
                ELSE base
    IN  IF isBalloon /\ st.balloon = <<>> THEN [st EXCEPT !.err = "IndexError"]
        ELSE [st EXCEPT !.ms[Len(st.ms)].normal.notes = Append(@, note),
                        !.balloon = IF isBalloon THEN popped.rest ELSE @,
                        !.cur = IF isBalloon \/ isRoll THEN here ELSE @,
                        !.note_counter = @ + 1]

\* lines 173-189: every other note becomes a note of the measure.
EmitNote(st, t, value, note_pos) ==
    LET here == <<Len(st.ms), st.note_counter + 1>>
        base == NewNote(t, value, note_pos)
        popped == PopFirst(st.balloon)
        isBalloon == value \in {"Balloon", "Kusudama"}
        isRoll == value \in {"Drumroll", "DRUMROLL"}
        note == IF isBalloon
                THEN base @@ [hits |-> popped.value, hitsPadding |-> 0]
                ELSE IF isRoll THEN base @@ [drumrollBytes |-> <<0, 0, 0, 0, 0, 0, 0, 0>>]
                ELSE base
    IN  IF isBalloon /\ st.balloon = <<>> THEN [st EXCEPT !.err = "IndexError"]
        ELSE [st EXCEPT !.ms[Len(st.ms)].normal.notes = Append(@, note),
                        !.balloon = IF isBalloon THEN popped.rest ELSE @,
                        !.cur = IF isBalloon \/ isRoll THEN here ELSE @,
                        !.total_notes = IF isBalloon \/ isRoll THEN @ - 1 ELSE @,
                        !.note_counter = @ + 1]

\* one element of measureTJA['data'].
NoteStep(st, t, m, d) ==
    IF d.type # "note" THEN st
    ELSE IF measureLength(m) = 0 THEN [st EXCEPT !.err = "ZeroDivisionError"]
    ELSE LET note_pos == (measureDurationBase(m) * (d.pos - m.pos_start))
                             \div measureLength(m)
         IN  IF d.value = "EndDRB" THEN EndDRB(st, note_pos)
             ELSE IF d.value = "Kusudama" /\ st.cur # <<>> THEN st
             ELSE EmitNote(st, t, d.value, note_pos)

RECURSIVE NoteLoop(_, _, _, _)
\* `for idx_d, data in enumerate(measureTJA['data'])`, from element i on; an
\* exception ends the loop.
NoteLoop(st, t, m, i) ==
    IF i > Len(m.data) \/ st.err # "" THEN st
    ELSE NoteLoop(NoteStep(st, t, m, m.data[i]), t, m, i + 1)

\* a variant of CarryDrumroll: every measure adds its whole base duration and
\* the note is never flagged.
CarryWholeMeasure(st, m) ==
    IF st.cur = <<>> THEN st
    ELSE SetDrumrollNote(st, [DrumrollNote(st) EXCEPT
                                 !.duration = @ + measureDurationBase(m)])

\* lines 198-204: a drumroll still open at the end of the measure.
CarryDrumroll(st, m) ==
    IF st.cur = <<>> THEN st
    ELSE LET n == DrumrollNote(st)
         IN  IF n.duration = 0
             THEN SetDrumrollNote(st,
                      [multimeasure |-> TRUE]
                        @@ [n EXCEPT !.duration = @ + (measureDurationBase(m) - n.pos)])
             ELSE SetDrumrollNote(st,
                      [n EXCEPT !.duration = @ + measureDurationBase(m)])

\* a variant of WithOffsets: the first measure keeps the offset it was
\* created with.
WithOffsetsKeepsFirst(conv, t, i) ==
    LET m == t.measures[i]
        measureFumen ==
            [default_measure EXCEPT
               !.fumenOffset = IF i = 1 THEN @
                               ELSE conv[i - 1].fumenOffset + measureDurationPrev,
               !.hidden = IF i = 1 \/ (RatioIsNotOne(m) /\ m.pos_start # 0)
                          THEN FALSE ELSE @]
    IN  Append(conv, measureFumen)

\* lines 126-145: fumenOffset and hidden of the new measure, and the first
\* measure's offset once the second one's duration is known.
WithOffsets(conv, t, i) ==
    LET dur == measureDurationOf(t.measures, i)
        tjaOffset == t.metadata.offset * 1000 * Scale * (-1)
        prev == IF i = 2
                THEN [conv EXCEPT ![1].fumenOffset = tjaOffset - dur]
                ELSE conv
        m == t.measures[i]
        measureFumen ==
            [default_measure EXCEPT
               !.fumenOffset = IF i = 1 THEN @
                               ELSE prev[i - 1].fumenOffset + measureDurationPrev,
               !.hidden = IF i = 1 \/ (RatioIsNotOne(m) /\ m.pos_start # 0)
                          THEN FALSE ELSE @]
    IN  Append(prev, measureFumen)

\* a variant of CloseMeasure: the length counts every marker of the
\* sub-measure, the end markers and the dropped ones included.
CloseMeasureCountsMarkers(st, m) ==
    [st EXCEPT !.ms[Len(st.ms)] =
        [@ EXCEPT !.normal.length = Len(m.data),
                  !.normal.speed = m.scroll,
                  !.gogo = m.gogo,
                  !.bpm = m.bpm]]

\* lines 190-193.
CloseMeasure(st, m) ==
    [st EXCEPT !.ms[Len(st.ms)] =
        [@ EXCEPT !.normal.length = st.note_counter,
                  !.normal.speed = m.scroll,
                  !.gogo = m.gogo,
                  !.bpm = m.bpm]]

\* ---- the conversions explored ----------------------------------------------------
Bpm(p, v) == TJAEvent(p, "bpm", v)

Gogo(p, v) == TJAEvent(p, "gogo", v)

\* the measures a chart is made of (TJA text in the comments).
ConvAlphabet ==
    { TJAInputMeasure(<<"1", "0">>, <<>>),                         \* 10,
      TJAInputMeasure(<<"7", "0">>, <<>>),                         \* 70,
      TJAInputMeasure(<<"0", "8">>, <<>>),                         \* 08,
      TJAInputMeasure(<<>>, <<>>),                                 \* ,
      TJAInputMeasure(<<"0", "5", "8">>, <<>>),                    \* 058,
      TJAInputMeasure(<<"7", "9">>, <<>>),                         \* 79,
      TJAInputMeasure(<<"9", "0">>, <<>>),                         \* 90,
      TJAInputMeasure(<<"0", "6", "0">>, <<>>),                    \* 060,
      TJAInputMeasure(<<"0", "0">>, <<Bpm(0, 240)>>),              \* #BPMCHANGE 240 / 00,
      TJAInputMeasure(<<"1", "2">>, <<Bpm(1, 240)>>),              \* 1 / #BPMCHANGE 240 / 2,
      TJAInputMeasure(<<"0", "0", "7", "0">>, <<Bpm(2, 240)>>),    \* 00 / #BPMCHANGE 240 / 70,
      TJAInputMeasure(<<"1", "0", "2", "0">>,                      \* 10 / two #BPMCHANGE / 20 / #BPMCHANGE ,
                      <<Bpm(2, 240), Bpm(2, 120), Bpm(4, 240)>>),
      TJAInputMeasure(<<"1", "0", "0", "0", "2", "2", "0", "8">>,
                      <<Gogo(0, "1"), Bpm(4, 120), Gogo(6, "0")>>) }

\* BALLOON, OFFSET and COURSE of the course converted.
ConvMetadata ==
    { [balloon |-> <<5>>, offset |-> 0, course |-> "Easy"],
      [balloon |-> <<5, 7, 9>>, offset |-> -2, course |-> "Oni"] }

MaxMeasures == 3

\* the first measure of a chart carries the song's BPM as an event at position
\* 0, or (a caller's mistake) no BPM at all.
WithSongBpm(m) == [m EXCEPT !.events = <<Bpm(0, 120)>> \o @]

ConvInputs ==
    { [measures |-> ms, metadata |-> md, scoreInit |-> 300, scoreDiff |-> 100] :
        ms \in { <<WithSongBpm(f)>> \o r :
                   f \in ConvAlphabet, r \in SeqsUpTo(ConvAlphabet, MaxMeasures - 1) }
               \cup { <<f>> : f \in ConvAlphabet },
        md \in ConvMetadata }

\* ---- the steps of convertTJAToFumen ----------------------------------------------
\* line 103 and the locals of lines 104-109.
Preprocess ==
    /\ c_pc = "start"
    /\ tja' = [tja EXCEPT !.measures = preprocessTJAMeasures(tja)]
    /\ c_pc' = "measures"
    /\ UNCHANGED <<tja_in, c_idx_m, measureDurationPrev, currentDrumroll,
                   total_notes, tjaConverted, unknownHeaderSample, h_base, h_ends>>
    /\ UNCHANGED NotConv

\* one iteration of `for idx_m, measureTJA in enumerate(tja['measures'])`.
ConvertMeasure ==
    /\ c_pc = "measures"
    /\ c_idx_m < Len(tja.measures)
    /\ LET i == c_idx_m + 1
           m == tja.measures[i]
       IN  IF DividesByZero(tja.measures, i)
           THEN /\ c_pc' = "ZeroDivisionError"
                /\ UNCHANGED <<tja, c_idx_m, measureDurationPrev, currentDrumroll,
                               total_notes, tjaConverted, h_base, h_ends>>
           ELSE LET st0 == [ms |-> WithOffsets(tjaConverted.measures, tja, i),
                            cur |-> currentDrumroll,
                            balloon |-> tja.metadata.balloon,
                            total_notes |-> total_notes,
                            note_counter |-> 0,
                            err |-> "",
                            ends |-> h_ends]
                    st1 == NoteLoop(st0, tja, m, 1)
                    st2 == CarryDrumroll(CloseMeasure(st1, m), m)
                IN  IF st1.err # ""
                    THEN /\ c_pc' = st1.err
                         /\ tja' = [tja EXCEPT !.metadata.balloon = st1.balloon]
                         /\ UNCHANGED <<c_idx_m, measureDurationPrev, currentDrumroll,
                                        total_notes, tjaConverted, h_base, h_ends>>
                    ELSE /\ c_pc' = "measures"
                         /\ tja' = [tja EXCEPT !.metadata.balloon = st2.balloon]
                         /\ c_idx_m' = i
                         /\ measureDurationPrev' = measureDurationOf(tja.measures, i)
                         /\ currentDrumroll' = st2.cur
                         /\ total_notes' = st2.total_notes + st2.note_counter
                         /\ tjaConverted' = [tjaConverted EXCEPT !.measures = st2.ms]
                         /\ h_base' = Append(h_base, measureDurationBase(m))
                         /\ h_ends' = st2.ends
    /\ UNCHANGED <<tja_in, unknownHeaderSample>>
    /\ UNCHANGED NotConv

\* lines 208-221: the header and the course's fields.
ConvertHeader ==
    /\ c_pc = "measures"
    /\ c_idx_m = Len(tja.measures)
    /\ LET headerMetadata ==
               [unknownHeaderSample EXCEPT
                  ![8] = DIFFICULTY_BYTES(tja.metadata.course)[1],
                  ![9] = DIFFICULTY_BYTES(tja.metadata.course)[2],
                  ![20] = computeSoulGaugeByte(total_notes)]
       IN  /\ unknownHeaderSample' = headerMetadata
           /\ tjaConverted' =
                  [measures |-> tjaConverted.measures,
                   headerUnknown |-> headerMetadata,
                   order |-> "<",
                   length |-> Len(tjaConverted.measures),
                   unknownMetadata |-> 0,
                   branches |-> FALSE,
                   scoreInit |-> tja.scoreInit,
                   scoreDiff |-> tja.scoreDiff]
    /\ c_pc' = "done"
    /\ UNCHANGED <<tja, tja_in, c_idx_m, measureDurationPrev, currentDrumroll,
                   total_notes, h_base, h_ends>>
    /\ UNCHANGED NotConv

ConvLocals ==
    /\ c_idx_m = 0
    /\ measureDurationPrev = 0
    /\ currentDrumroll = <<>>
    /\ total_notes = 0
    /\ tjaConverted = [measures |-> <<>>]
    /\ unknownHeaderSample = unknownHeaderSampleInitial
    /\ h_base = <<>>
    /\ h_ends = <<>>

ConvInit ==
    /\ tja \in ConvInputs
    /\ tja_in = tja
    /\ c_pc = "start"
    /\ ConvLocals

ConvIdle ==
    /\ tja = <<>>
    /\ tja_in = <<>>
    /\ c_pc = "idle"
    /\ ConvLocals

ConvNext == Preprocess \/ ConvertMeasure \/ ConvertHeader

\* ========================================================================
\* split_tja_lines_into_courses (src/src/tja2fumen/parsers.py)
\* ========================================================================

\* ---- the lines of the file ---------------------------------------------------
\* A line is held as what the two regular expressions of lines 69-70 make of
\* it: a metadata line NAME:value, a #START command with its argument ("" when
\* it has none), or any other line.
MetaLine(name, value) == [kind |-> "metadata", name |-> name, value |-> value]

StartLine(value) == [kind |-> "start", value |-> value]

OtherLine(text) == [kind |-> "other", text |-> text]

\* tja2fumen.constants.NORMALIZE_COURSE, for two difficulties.
NormalizeKeys == {"Oni", "3", "Easy", "0"}

NORMALIZE_COURSE(value) == IF value \in {"Oni", "3"} THEN "Oni" ELSE "Easy"

\* the names TJASong creates a course for: each difficulty, and its P1 and P2.
TJA_COURSE_NAMES == {"Oni", "OniP1", "OniP2", "Easy", "EasyP1", "EasyP2"}

TJACourse(bpm, offset, course) ==
    [BPM |-> bpm, offset |-> offset, course |-> course, level |-> 0,
     balloon |-> <<>>, score_init |-> 0, score_diff |-> 0, data |-> <<>>]

TJASong(bpm, offset) ==
    [BPM |-> bpm, offset |-> offset,
     courses |-> [c \in TJA_COURSE_NAMES |-> TJACourse(bpm, offset, c)]]

\* value.split(","), for the values of the model.
SplitComma(value) ==
    CASE value = "100,200" -> <<"100", "200">>
      [] value = "5,,7" -> <<"5", "", "7">>
      [] OTHER -> <<value>>

\* int(v), for the numerals of the model.
PyInt(v) ==
    CASE v = "5" -> 5
      [] v = "7" -> 7
      [] v = "10" -> 10
      [] v = "100" -> 100
      [] v = "200" -> 200
      [] v = "300" -> 300

ValidLevels == {"1", "2", "3", "4", "5", "6", "7", "8", "9", "10"}

\* bool(x) of a string.
Truthy(x) == x # ""

\* ---- the files explored -------------------------------------------------------
SplitAlphabet ==
    { MetaLine("BPM", "120"), MetaLine("OFFSET", "-1.5"), MetaLine("BPM", ""),
      MetaLine("TITLE", "x"),
      MetaLine("COURSE", "Oni"), MetaLine("COURSE", "0"), MetaLine("COURSE", "Tower"),
      MetaLine("LEVEL", "5"), MetaLine("LEVEL", "11"),
      MetaLine("SCOREINIT", "100,200"), MetaLine("SCOREDIFF", ""),
      MetaLine("BALLOON", "5,,7"), MetaLine("BALLOON", ""),
      MetaLine("STYLE", "Single"), MetaLine("STYLE", "Double"),
      StartLine(""), StartLine("P1"), StartLine("P2"), StartLine("P3"),
      OtherLine("1010,"), OtherLine("#END") }

\* the lines after the head of a file.
SplitTail ==
    { MetaLine("COURSE", "0"), MetaLine("LEVEL", "5"), MetaLine("LEVEL", "11"),
      MetaLine("BALLOON", "5,,7"), MetaLine("STYLE", "Single"), MetaLine("BPM", "240"),
      StartLine(""), StartLine("P1"), StartLine("P2"), OtherLine("1010,") }

SplitHead == <<MetaLine("BPM", "120"), MetaLine("OFFSET", "-1.5"), MetaLine("COURSE", "Oni")>>

MaxFree == 2

MaxTail == 4

SplitInputs ==
    SeqsUpTo(SplitAlphabet, MaxFree)
      \cup { SplitHead \o t : t \in SeqsUpTo(SplitTail, MaxTail) }

\* ---- the loop over the lines --------------------------------------------------
SplitLineIs(kind) ==
    /\ s_pc = "lines"
    /\ s_idx < Len(lines)
    /\ lines[s_idx + 1].kind = kind

\* parsed_tja.courses[name] can be reached: "" when it can, else the error.
CourseError(name) ==
    IF parsed_tja = <<>> THEN "AttributeError"
    ELSE IF name \notin DOMAIN parsed_tja.courses THEN "KeyError"
    ELSE ""

\* the step ends in an exception: nothing but the control state changes.
SplitRaise(err) ==
    /\ s_pc' = err
    /\ UNCHANGED <<lines, s_idx, parsed_tja, current_course,
                   current_course_basename, song_bpm, song_offset, h_sel>>

\* parsed_tja.courses[current_course].<field> = value
SetCourseField(field, value) ==
    IF CourseError(current_course) # "" THEN SplitRaise(CourseError(current_course))
    ELSE /\ parsed_tja' = [parsed_tja EXCEPT !.courses[current_course][field] = value]
         /\ s_idx' = s_idx + 1
         /\ UNCHANGED <<s_pc, lines, current_course, current_course_basename,
                        song_bpm, song_offset, h_sel>>

\* a line that changes nothing.
SplitSkip ==
    /\ s_idx' = s_idx + 1
    /\ UNCHANGED <<s_pc, lines, parsed_tja, current_course,
                   current_course_basename, song_bpm, song_offset, h_sel>>

\* lines 78-84: BPM and OFFSET.
SongMetadata(name, value) ==
    LET bpm == IF name = "BPM" THEN value ELSE song_bpm
        offset == IF name = "OFFSET" THEN value ELSE song_offset
    IN  /\ song_bpm' = bpm
        /\ song_offset' = offset
        /\ parsed_tja' = IF Truthy(bpm) /\ Truthy(offset)
                         THEN TJASong(bpm, offset) ELSE parsed_tja
        /\ s_idx' = s_idx + 1
        /\ UNCHANGED <<s_pc, lines, current_course, current_course_basename, h_sel>>

\* a variant of SelectCourse: an unknown value is taken as the course name.
SelectCourseUnchecked(value) ==
    /\ current_course' = IF value \in NormalizeKeys THEN NORMALIZE_COURSE(value) ELSE value
    /\ current_course_basename' = current_course'
    /\ h_sel' = "course"
    /\ s_idx' = s_idx + 1
    /\ UNCHANGED <<s_pc, lines, parsed_tja, song_bpm, song_offset>>

\* lines 87-91: COURSE.
SelectCourse(value) ==
    IF value \notin NormalizeKeys THEN SplitRaise("ValueError")
    ELSE /\ current_course' = NORMALIZE_COURSE(value)
         /\ current_course_basename' = NORMALIZE_COURSE(value)
         /\ h_sel' = "course"
         /\ s_idx' = s_idx + 1
         /\ UNCHANGED <<s_pc, lines, parsed_tja, song_bpm, song_offset>>

\* a variant of StyleSingle: the current course stays what it is.
StyleSingleKeepsPlayer ==
    /\ current_course' = current_course
    /\ h_sel' = IF h_sel = "player" THEN "single" ELSE h_sel
    /\ s_idx' = s_idx + 1
    /\ UNCHANGED <<s_pc, lines, parsed_tja, current_course_basename,
                   song_bpm, song_offset>>

\* lines 107-111: STYLE:Single.
StyleSingle ==
    /\ current_course' = current_course_basename
    /\ h_sel' = IF h_sel = "player" THEN "single" ELSE h_sel
    /\ s_idx' = s_idx + 1
    /\ UNCHANGED <<s_pc, lines, parsed_tja, current_course_basename,
                   song_bpm, song_offset>>

\* [int(v) for v in value.split(",") if v]
BalloonValues(value) ==
    LET parts == SelectSeq(SplitComma(value), LAMBDA v : v # "")
    IN  [i \in 1..Len(parts) |-> PyInt(parts[i])]

\* int(value.split(",")[-1]) if value else 0
LastValue(value) == IF value # "" THEN PyInt(Last(SplitComma(value))) ELSE 0

\* Case 1: a metadata line.
SplitMetadata ==
    /\ SplitLineIs("metadata")
    /\ LET name_upper == lines[s_idx + 1].name
           value == lines[s_idx + 1].value
       IN  CASE name_upper \in {"BPM", "OFFSET"} -> SongMetadata(name_upper, value)
             [] name_upper = "COURSE" -> SelectCourse(value)
             [] name_upper = "LEVEL" ->
                  IF value \notin ValidLevels THEN SplitRaise("ValueError")
                  ELSE SetCourseField("level", PyInt(value))
             [] name_upper = "SCOREINIT" -> SetCourseField("score_init", LastValue(value))
             [] name_upper = "SCOREDIFF" -> SetCourseField("score_diff", LastValue(value))
             [] name_upper = "BALLOON" ->
                  IF value # "" THEN SetCourseField("balloon", BalloonValues(value))
                  ELSE SplitSkip
             [] name_upper = "STYLE" ->
                  IF value = "Single" THEN StyleSingle ELSE SplitSkip
             [] OTHER -> SplitSkip
    /\ UNCHANGED NotSplit

\* a variant of PlayerCourse: the copy keeps the data of the base course.
PlayerCourseKeepsData(course) == [course EXCEPT !.data = Append(@, StartLine(""))]

\* lines 124-126 and 131: a deep copy of the base course whose data is a new
\* list, to which the plain "#START" is appended.
PlayerCourse(course) == [course EXCEPT !.data = <<StartLine("")>>]

\* Case 2: a #START command.
SplitStart ==
    /\ SplitLineIs("start")
    /\ LET value == lines[s_idx + 1].value
           player == current_course_basename \o value
       IN  IF value \in {"P1", "P2"}
           THEN /\ current_course' = player
                /\ h_sel' = "player"
                /\ IF CourseError(current_course_basename) # ""
                   THEN /\ s_pc' = CourseError(current_course_basename)
                        /\ UNCHANGED <<s_idx, parsed_tja>>
                   ELSE /\ parsed_tja' =
                              [parsed_tja EXCEPT !.courses =
                                 [c \in DOMAIN @ \cup {player} |->
                                    IF c = player
                                    THEN PlayerCourse(@[current_course_basename])
                                    ELSE @[c]]]
                        /\ s_idx' = s_idx + 1
                        /\ UNCHANGED s_pc
                /\ UNCHANGED <<lines, current_course_basename, song_bpm, song_offset>>
           ELSE IF value # "" THEN SplitRaise("ValueError")
           ELSE IF CourseError(current_course) # ""
           THEN SplitRaise(CourseError(current_course))
           ELSE /\ parsed_tja' = [parsed_tja EXCEPT
                                    !.courses[current_course].data =
                                        Append(@, StartLine(""))]
                /\ s_idx' = s_idx + 1
                /\ UNCHANGED <<s_pc, lines, current_course, current_course_basename,
                               song_bpm, song_offset, h_sel>>
    /\ UNCHANGED NotSplit

\* Case 3: any other line.
SplitOther ==
    /\ SplitLineIs("other")
    /\ IF CourseError(current_course) # "" THEN SplitRaise(CourseError(current_course))
       ELSE /\ parsed_tja' = [parsed_tja EXCEPT
                                !.courses[current_course].data =
                                    Append(@, lines[s_idx + 1])]
            /\ s_idx' = s_idx + 1
            /\ UNCHANGED <<s_pc, lines, current_course, current_course_basename,
                           song_bpm, song_offset, h_sel>>
    /\ UNCHANGED NotSplit

\* lines 140-144: a course without data becomes a copy of its P1 course.
FillFromP1(courses) ==
    [c \in DOMAIN courses |->
       IF courses[c].data = <<>> /\ (c \o "P1") \in DOMAIN courses
       THEN courses[c \o "P1"] ELSE courses[c]]

\* a variant of DropEmpty: every course is kept.
DropNothing(courses) == courses

\* lines 147-149: the courses without data are deleted.
DropEmpty(courses) ==
    [c \in {k \in DOMAIN courses : courses[k].data # <<>>} |-> courses[c]]

\* lines 137-151: after the last line.
SplitPostPass ==
    /\ s_pc = "lines"
    /\ s_idx = Len(lines)
    /\ IF parsed_tja = <<>> THEN SplitRaise("AttributeError")
       ELSE /\ parsed_tja' = [parsed_tja EXCEPT !.courses = DropEmpty(FillFromP1(@))]
            /\ s_pc' = "done"
            /\ UNCHANGED <<lines, s_idx, current_course, current_course_basename,
                           song_bpm, song_offset, h_sel>>
    /\ UNCHANGED NotSplit

SplitLocals ==
    /\ s_idx = 0
    /\ parsed_tja = <<>>
    /\ current_course = ""
    /\ current_course_basename = ""
    /\ song_bpm = ""        \* 0 in the code: false like "", and only tested
    /\ song_offset = ""     \* likewise
    /\ h_sel = "none"

SplitInit ==
    /\ lines \in SplitInputs
    /\ s_pc = "lines"
    /\ SplitLocals

SplitIdle ==
    /\ lines = <<>>
    /\ s_pc = "idle"
    /\ SplitLocals

SplitNext == SplitMetadata \/ SplitStart \/ SplitOther \/ SplitPostPass

\* ========================================================================
\* parse_fumen, read_struct (src/src/tja2fumen/parsers.py) and
\* write_fumen (src/src/tja2fumen/writers.py)
\* ========================================================================

\* ---- struct: values and bytes, little-endian ('<') -------------------------
\* A file is a sequence of bytes. 'B', 'H' and 'i' fields are numbers; an 'f'
\* field is held as its four bytes: unpacking a float32 and packing it again
\* gives the same four bytes.
Zeros(n) == [i \in 1..n |-> 0]

\* F applied to the value of x.
With(x, F(_)) == CHOOSE y \in { F(v) : v \in {x} } : TRUE

\* struct.calcsize of one format character.
FieldSize(ch) == CASE ch = "B" -> 1 [] ch = "H" -> 2 [] OTHER -> 4

RECURSIVE CalcSize(_)
CalcSize(fmt) == IF fmt = <<>> THEN 0 ELSE FieldSize(fmt[1]) + CalcSize(Tail(fmt))

\* a signed 32-bit integer from its four bytes.
UnpackI(b) ==
    LET low == b[1] + 256 * b[2] + 65536 * b[3]
    IN  IF b[4] < 128 THEN low + 16777216 * b[4]
        ELSE ((low + 16777216 * (b[4] - 128)) - 2147483647) - 1

\* the four bytes of a signed 32-bit integer.
PackI(v) ==
    LET w == IF v < 0 THEN (v + 2147483647) + 1 ELSE v
        top == IF v < 0 THEN 128 ELSE 0
    IN  <<w % 256, (w \div 256) % 256, (w \div 65536) % 256, top + (w \div 16777216)>>

UnpackField(ch, b) ==
    CASE ch = "B" -> b[1]
      [] ch = "H" -> b[1] + 256 * b[2]
      [] ch = "i" -> UnpackI(b)
      [] ch = "f" -> b

PackField(ch, v) ==
    CASE ch = "B" -> <<v>>
      [] ch = "H" -> <<v % 256, v \div 256>>
      [] ch = "i" -> PackI(v)
      [] ch = "f" -> v

RECURSIVE Flatten(_)
\* b"".join(...)
Flatten(ss) == IF ss = <<>> THEN <<>> ELSE ss[1] \o Flatten(Tail(ss))

\* where field i of a record starts.
FieldOffset(fmt, i) == CalcSize(SubSeq(fmt, 1, i - 1))

\* struct.unpack(order + format_string, byte_string)
Unpack(fmt, b) ==
    [i \in 1..Len(fmt) |->
       UnpackField(fmt[i], SubSeq(b, FieldOffset(fmt, i) + 1,
                                  FieldOffset(fmt, i) + FieldSize(fmt[i])))]

\* struct.pack(order + format_string, *value_list)
Pack(fmt, values) == Flatten([i \in 1..Len(fmt) |-> PackField(fmt[i], values[i])])

\* the three record layouts.
MeasureFormat == <<"f", "f", "B", "B", "H", "i", "i", "i", "i", "i", "i", "i">>

BranchFormat == <<"H", "H", "f">>

NoteFormat == <<"i", "f", "i", "f", "H", "H", "f">>

\* file.read(n) at position pos.
FileRead(f, pos, n) ==
    SubSeq(f, pos + 1, IF pos + n <= Len(f) THEN pos + n ELSE Len(f))

\* a variant of read_struct: a short read is completed with 0xff bytes.
read_struct_pad_ff(f, pos, fmt) ==
    LET expected_size == CalcSize(fmt)
        byte_string == FileRead(f, pos, expected_size)
        padded == byte_string \o [i \in 1..(expected_size - Len(byte_string)) |-> 255]
    IN  [values |-> With(padded, LAMBDA b : Unpack(fmt, b)),
         pos |-> pos + Len(byte_string),
         short |-> Len(byte_string) # expected_size]

\* read_struct: the values of one record, the new file position, and whether
\* the read was short and completed with zeros.
read_struct(f, pos, fmt) ==
    LET expected_size == CalcSize(fmt)
        byte_string == FileRead(f, pos, expected_size)
        padded == byte_string \o Zeros(expected_size - Len(byte_string))
    IN  [values |-> With(padded, LAMBDA b : Unpack(fmt, b)),
         pos |-> pos + Len(byte_string),
         short |-> Len(byte_string) # expected_size]

\* ---- the tables and types of the codec ---------------------------------------
HeaderSize == 520

\* tja2fumen.constants.FUMEN_NOTE_TYPES: the codes the model uses.
FumenTypeCodes == {1, 6, 9, 10, 12}

FUMEN_NOTE_TYPES(code) ==
    CASE code = 1 -> "Don"
      [] code = 6 -> "Drumroll"
      [] code = 9 -> "DRUMROLL"
      [] code = 10 -> "Balloon"
      [] code = 12 -> "Kusudama"

\* tja2fumen.constants.FUMEN_TYPE_NOTES: the inverse table.
FUMEN_TYPE_NOTES(name) == CHOOSE code \in FumenTypeCodes : FUMEN_NOTE_TYPES(code) = name

\* tja2fumen.types.FumenHeader: the raw bytes, the byte order and the number
\* of measures in bytes 512..515.
FumenHeader(raw_bytes) ==
    [raw_bytes |-> raw_bytes, order |-> "<",
     b512_b515_number_of_measures |->
         IF Len(raw_bytes) >= 516
         THEN raw_bytes[513] + 256 * raw_bytes[514] + 65536 * raw_bytes[515]
                + 16777216 * raw_bytes[516]
         ELSE 0]

\* tja2fumen.types.FumenNote with the fields parse_fumen passes; the others
\* have their defaults.
FumenNote(note_type, pos, item, padding) ==
    [type |-> note_type, pos |-> pos, item |-> item, padding |-> padding,
     hits |-> 0, hits_padding |-> 0, score_init |-> 0, score_diff |-> 0,
     duration |-> Zeros(4), drumroll_bytes |-> Zeros(8)]

FumenBranch(length, padding, speed) ==
    [length |-> length, padding |-> padding, speed |-> speed, notes |-> <<>>]

FumenMeasure(v, branches_read) ==
    [bpm |-> v[1], offset_start |-> v[2], gogo |-> v[3], barline |-> v[4],
     padding1 |-> v[5], branch_info |-> SubSeq(v, 6, 11), padding2 |-> v[12],
     branches |-> branches_read]

FumenCourse(header) ==
    [header |-> header, measures |-> <<>>, score_init |-> 0, score_diff |-> 0]

\* ---- parse_fumen ------------------------------------------------------------------
\* The reader's state while a measure is read: the file position, whether a
\* read was short, the exception raised ("" for none), the song's score
\* fields, the notes of the branch being read and the branches read.
ReaderAt(pos) ==
    [pos |-> pos, short |-> h_short, err |-> "", notes |-> <<>>, branches |-> <<>>,
     score_init |-> song.score_init, score_diff |-> song.score_diff]

\* lines 406-431: the note made of the record r.
NoteOf(f, st, r) ==
    LET v == r.values
        note_type == v[1]
        note == FumenNote(FUMEN_NOTE_TYPES(note_type), v[2], v[3], v[4])
        typed == IF note_type = 10 \/ note_type = 12
                 THEN [note EXCEPT !.hits = v[5], !.hits_padding = v[6]]
                 ELSE [note EXCEPT !.score_init = v[5], !.score_diff = v[6] \div 4]
        timed == [typed EXCEPT !.duration = v[7]]
        drumroll == note_type = 6 \/ note_type = 9 \/ note_type = 98
        drumroll_bytes == FileRead(f, r.pos, 8)
    IN  IF note_type \notin FumenTypeCodes
        THEN [st EXCEPT !.err = "KeyError", !.pos = r.pos, !.short = @ \/ r.short]
        ELSE [st EXCEPT
                !.pos = IF drumroll THEN r.pos + Len(drumroll_bytes) ELSE r.pos,
                !.short = @ \/ r.short,
                !.score_init = IF note_type \in {10, 12} THEN @ ELSE v[5],
                !.score_diff = IF note_type \in {10, 12} THEN @ ELSE v[6] \div 4,
                !.notes = Append(@, IF drumroll
                                    THEN [timed EXCEPT !.drumroll_bytes = drumroll_bytes]
                                    ELSE timed)]

\* lines 403-431: one note of a branch.
ReadNote(f, st) ==
    With(read_struct(f, st.pos, NoteFormat), LAMBDA r : NoteOf(f, st, r))

RECURSIVE ReadNotes(_, _, _)
\* `for note_number in range(total_notes)`, n notes still to read; an
\* exception ends the loop.
ReadNotes(f, st, n) ==
    IF n = 0 \/ st.err # "" THEN st
    ELSE With(ReadNote(f, st), LAMBDA s1 : ReadNotes(f, s1, n - 1))

\* line 434: the branch is assigned to the measure.
AssignBranch(st, r) ==
    [st EXCEPT !.branches =
        Append(@, [FumenBranch(r.values[1], r.values[2], r.values[3])
                     EXCEPT !.notes = st.notes])]

\* lines 380-434: one branch of a measure.
ReadBranch(f, st) ==
    With(read_struct(f, st.pos, BranchFormat),
         LAMBDA r :
           With(ReadNotes(f, [st EXCEPT !.pos = r.pos, !.short = @ \/ r.short,
                                        !.notes = <<>>],
                          r.values[1]),
                LAMBDA s1 : AssignBranch(s1, r)))

RECURSIVE ReadBranches(_, _, _)
\* `for branch_name in BRANCH_NAMES`, n branches still to read.
ReadBranches(f, st, n) ==
    IF n = 0 \/ st.err # "" THEN st
    ELSE With(ReadBranch(f, st), LAMBDA s1 : ReadBranches(f, s1, n - 1))

\* line 434, for the three branches.
BranchesOf(st) == [b \in AllBranches |->
                     CASE b = BRANCH_NAMES[1] -> st.branches[1]
                       [] b = BRANCH_NAMES[2] -> st.branches[2]
                       [] b = BRANCH_NAMES[3] -> st.branches[3]]

\* lines 359-437: one measure.
ReadMeasure(f, st) ==
    With(read_struct(f, st.pos, MeasureFormat),
         LAMBDA r :
           With(ReadBranches(f, [st EXCEPT !.pos = r.pos, !.short = @ \/ r.short,
                                           !.branches = <<>>],
                             Len(BRANCH_NAMES)),
                LAMBDA s1 : [st |-> s1,
                             measure |-> IF s1.err # "" THEN <<>>
                                         ELSE FumenMeasure(r.values, BranchesOf(s1))]))

\* lines 342-347: the header.
ParseHeader ==
    /\ k_pc = "open"
    /\ song' = FumenCourse(FumenHeader(FileRead(file, 0, HeaderSize)))
    /\ k_pos' = Len(FileRead(file, 0, HeaderSize))
    /\ k_pc' = IF song'.header.b512_b515_number_of_measures = 0
               THEN "write" ELSE "parse"
    /\ UNCHANGED <<file, file_out, k_w, h_short>>
    /\ UNCHANGED NotCodec

\* one iteration of `for measure_number in range(...)`, with the test that
\* ends the loop when the file is exhausted.
ParseMeasure ==
    /\ k_pc = "parse"
    /\ \E r \in {ReadMeasure(file, ReaderAt(k_pos))} :
         /\ k_pos' = r.st.pos
         /\ h_short' = r.st.short
         /\ IF r.st.err # ""
            THEN /\ k_pc' = r.st.err
                 /\ song' = [song EXCEPT !.score_init = r.st.score_init,
                                         !.score_diff = r.st.score_diff]
            ELSE /\ song' = [song EXCEPT !.measures = Append(@, r.measure),
                                         !.score_init = r.st.score_init,
                                         !.score_diff = r.st.score_diff]
                 /\ k_pc' = IF \/ r.st.pos >= Len(file)
                               \/ Len(song.measures) + 1
                                    = song.header.b512_b515_number_of_measures
                            THEN "write" ELSE "parse"
    /\ UNCHANGED <<file, file_out, k_w>>
    /\ UNCHANGED NotCodec

\* ---- write_fumen ------------------------------------------------------------------
\* tja2fumen.utils.write_struct: the packed values are written.
write_struct(f, fmt, value_list) == f \o Pack(fmt, value_list)

\* lines 27-40: one note.
WriteNote(f, note) ==
    LET extra_vals == IF note.hits # 0
                      THEN <<note.hits, note.hits_padding>>
                      ELSE <<note.score_init, note.score_diff * 4>>
        note_struct == <<FUMEN_TYPE_NOTES(note.type), note.pos, note.item, note.padding>>
                         \o extra_vals \o <<note.duration>>
        f1 == write_struct(f, NoteFormat, note_struct)
    IN  IF note.type \in {"Drumroll", "DRUMROLL"}
        THEN f1 \o note.drumroll_bytes ELSE f1

RECURSIVE WriteNotes(_, _, _)
\* `for note_number in range(branch.length)`, from note i on.
WriteNotes(f, branch, i) ==
    IF i > branch.length THEN f
    ELSE WriteNotes(WriteNote(f, branch.notes[i]), branch, i + 1)

\* lines 20-40: one branch.
WriteBranch(f, branch) ==
    WriteNotes(write_struct(f, BranchFormat,
                            <<branch.length, branch.padding, branch.speed>>),
               branch, 1)

\* lines 10-40: one measure.
WriteMeasureTo(f, measure) ==
    LET measure_struct == <<measure.bpm, measure.offset_start, measure.gogo,
                            measure.barline, measure.padding1>>
                            \o measure.branch_info \o <<measure.padding2>>
        f0 == write_struct(f, MeasureFormat, measure_struct)
        f1 == WriteBranch(f0, measure.branches[BRANCH_NAMES[1]])
        f2 == WriteBranch(f1, measure.branches[BRANCH_NAMES[2]])
    IN  WriteBranch(f2, measure.branches[BRANCH_NAMES[3]])

\* lines 6-7: the header.
WriteHeader ==
    /\ k_pc = "write"
    /\ file_out' = song.header.raw_bytes
    /\ k_pc' = IF song.measures = <<>> THEN "done" ELSE "writing"
    /\ UNCHANGED <<file, k_pos, song, k_w, h_short>>
    /\ UNCHANGED NotCodec

\* one iteration of `for measure_number in range(len(song.measures))`.
WriteMeasure ==
    /\ k_pc = "writing"
    /\ file_out' = WriteMeasureTo(file_out, song.measures[k_w + 1])
    /\ k_w' = k_w + 1
    /\ k_pc' = IF k_w + 1 = Len(song.measures) THEN "done" ELSE "writing"
    /\ UNCHANGED <<file, k_pos, song, h_short>>
    /\ UNCHANGED NotCodec

\* ---- the charts explored ----------------------------------------------------------
\* float32 values by their bytes.
F120 == <<0, 0, 240, 66>>

F1 == <<0, 0, 128, 63>>

F500 == <<0, 0, 250, 67>>

\* a note record as it is on disk: type code, the two 2-byte fields, and the
\* bytes that follow the record.
DiskNote(code, field_a, field_b, trailing) ==
    Pack(NoteFormat, <<code, F500, 0, Zeros(4), field_a, field_b, F120>>) \o trailing

DiskDon == DiskNote(1, 300, 400, <<>>)          \* score_init 300, score_diff 100

DiskDonOdd == DiskNote(1, 300, 5, <<>>)         \* a score_diff field of 5

DiskBalloon == DiskNote(10, 5, 0, <<>>)         \* 5 hits

DiskBalloonZero == DiskNote(10, 0, 7, <<>>)     \* 0 hits, hits padding 7

DiskDrumroll == DiskNote(6, 300, 400, <<1, 2, 3, 4, 5, 6, 7, 8>>)

DiskBranch(notes) == Pack(BranchFormat, <<Len(notes), 0, F1>>) \o Flatten(notes)

\* a measure on disk, with the notes of its normal and master branches.
DiskMeasure(normal, master) ==
    Pack(MeasureFormat, <<F120, F500, 1, 1, 0, -1, -1, -1, -1, -1, -1, 0>>)
      \o DiskBranch(normal) \o DiskBranch(<<>>) \o DiskBranch(master)

DiskMeasures ==
    { DiskMeasure(<<>>, <<>>),
      DiskMeasure(<<DiskDon>>, <<>>),
      DiskMeasure(<<DiskBalloon, DiskDrumroll>>, <<>>),
      DiskMeasure(<<DiskDonOdd>>, <<>>),
      DiskMeasure(<<DiskBalloonZero>>, <<>>),
      DiskMeasure(<<DiskDon>>, <<DiskDrumroll>>) }

\* a 520-byte header declaring n measures.
DiskHeader(n) == <<7>> \o Zeros(511) \o <<n, 0, 0, 0>> \o <<0, 0, 0, 9>>

MaxChart == 2

MaxCut == 60

\* the bytes of a chart whose header declares n measures, less its last
\* `cut` bytes.
DiskChart(n, ms, cut) ==
    SubSeq(DiskHeader(n) \o Flatten(ms), 1, HeaderSize + Len(Flatten(ms)) - cut)

\* a chart with its measures: complete, or cut short by up to MaxCut bytes, or
\* complete but for one more measure that its header declares.
CodecInputs ==
    { DiskChart(Len(ms), ms, cut) :
        ms \in SeqsUpTo(DiskMeasures, MaxChart), cut \in 0..MaxCut }
      \cup { DiskChart(Len(ms) + 1, ms, 0) : ms \in SeqsUpTo(DiskMeasures, MaxChart) }

CodecInit ==
    /\ file \in { f \in CodecInputs : Len(f) >= HeaderSize }
    /\ k_pc = "open"
    /\ k_pos = 0
    /\ song = <<>>
    /\ file_out = <<>>
    /\ k_w = 0
    /\ h_short = FALSE

CodecNext == ParseHeader \/ ParseMeasure \/ WriteHeader \/ WriteMeasure

CodecIdle ==
    /\ k_pc = "idle"
    /\ file = <<>>
    /\ k_pos = 0
    /\ song = <<>>
    /\ file_out = <<>>
    /\ k_w = 0
    /\ h_short = FALSE

\* ========================================================================
\* Properties of split_tja_lines_into_courses
\* ========================================================================
\* a data line, or a metadata line of a course.
CourseLine(line) ==
    \/ line.kind = "other"
    \/ line.kind = "start" /\ line.value = ""
    \/ line.kind = "metadata"
         /\ line.name \in {"LEVEL", "SCOREINIT", "SCOREDIFF", "BALLOON"}

\* what a course line makes of the course it is applied to.
AppliedTo(course, line) ==
    CASE line.kind = "other" -> [course EXCEPT !.data = Append(@, line)]
      [] line.kind = "start" -> [course EXCEPT !.data = Append(@, StartLine(""))]
      [] line.name = "LEVEL" -> [course EXCEPT !.level = PyInt(line.value)]
      [] line.name = "SCOREINIT" ->
           [course EXCEPT !.score_init =
               IF line.value = "" THEN 0 ELSE PyInt(Last(SplitComma(line.value)))]
      [] line.name = "SCOREDIFF" ->
           [course EXCEPT !.score_diff =
               IF line.value = "" THEN 0 ELSE PyInt(Last(SplitComma(line.value)))]
      [] line.name = "BALLOON" ->
           IF line.value = "5,,7" THEN [course EXCEPT !.balloon = <<5, 7>>]
           ELSE course

\* C9: once #START P1 or #START P2 has made <base>P1 or <base>P2 the current
\* course, a STYLE:Single line makes the base course current again, and every
\* data line and course metadata line from there to the next COURSE: line or
\* #START P1/P2 is applied to the base course and leaves the P1 and P2
\* courses as they are.
C9_StyleSingleRestoresBase ==
    [][ (s_pc = "lines" /\ s_pc' = "lines" /\ s_idx' = s_idx + 1) =>
          LET line == lines[s_idx + 1]
              base == current_course_basename
          IN  /\ (h_sel = "player" /\ line = MetaLine("STYLE", "Single"))
                   => current_course' = base
              /\ (h_sel = "single" /\ CourseLine(line))
                   => /\ parsed_tja'.courses[base]
                           = AppliedTo(parsed_tja.courses[base], line)
                      /\ \A c \in DOMAIN parsed_tja.courses \ {base} :
                           parsed_tja'.courses[c] = parsed_tja.courses[c]
      ]_vars

\* a data line has been appended to the base course after #START P1, a line
\* of the P1 course and STYLE:Single.
C9_Witness ==
    /\ s_pc = "lines"
    /\ h_sel = "single"
    /\ s_idx >= 3
    /\ lines[s_idx] = OtherLine("1010,")
    /\ lines[s_idx - 1] = MetaLine("STYLE", "Single")
    /\ lines[s_idx - 3] = StartLine("P1")
    /\ current_course = current_course_basename
    /\ Last(parsed_tja.courses[current_course_basename].data) = lines[s_idx]
    /\ Len(parsed_tja.courses[current_course_basename \o "P1"].data) = 2

\* a line has been processed without an exception.
SplitStepped == s_pc = "lines" /\ s_pc' = "lines" /\ s_idx' = s_idx + 1

\* C11: once the song has been constructed from a BPM: and an OFFSET: value,
\* a later BPM: or OFFSET: line leaves it unchanged: its bpm, its offset and
\* every course with what it has accumulated.
C11_LaterBpmOffsetIgnored ==
    [][ (SplitStepped /\ parsed_tja # <<>>
           /\ lines[s_idx + 1].kind = "metadata"
           /\ lines[s_idx + 1].name \in {"BPM", "OFFSET"})
          => parsed_tja' = parsed_tja ]_vars

\* a COURSE: value that is no known course, a LEVEL: value outside '1'..'10',
\* or a #START argument other than P1 and P2.
InvalidLine(l) ==
    \/ l.kind = "metadata" /\ l.name = "COURSE" /\ l.value \notin NormalizeKeys
    \/ l.kind = "metadata" /\ l.name = "LEVEL" /\ l.value \notin ValidLevels
    \/ l.kind = "start" /\ l.value \notin {"", "P1", "P2"}

\* C12: on an invalid COURSE:, LEVEL: or #START line the splitter raises
\* (ValueError), no song is returned, and no later line is processed: the
\* failed state is final and the line index stays on the invalid line.
C12_InvalidLineRaises ==
    [][ /\ s_pc = "lines"
        /\ (s_idx < Len(lines) /\ InvalidLine(lines[s_idx + 1]))
             => (s_pc' = "ValueError" /\ s_idx' = s_idx /\ parsed_tja' = parsed_tja) ]_vars

\* a song exists, a course is selected, and the splitter has failed on an
\* invalid LEVEL: line that has a line after it.
C12_Witness ==
    /\ s_pc = "ValueError"
    /\ parsed_tja # <<>>
    /\ current_course # ""
    /\ s_idx + 1 < Len(lines)
    /\ lines[s_idx + 1] = MetaLine("LEVEL", "11")

\* the courses of the song before and after a step.
Courses == parsed_tja.courses
CoursesAfter == parsed_tja'.courses

\* C13: #START P1 / #START P2 makes <base>P1 / <base>P2 a course with the
\* level, score_init, score_diff and balloon the base course has at that line
\* and with the plain #START as its only data line; every step applied to a
\* course (a course metadata line, an appended data line, the creation of a
\* player course) leaves every other course as it is; and the post-pass that
\* fills a course from its P1 course gives it the P1 course's values and
\* leaves the P1 course as it is.
C13_PlayerCoursesIndependent ==
    [][ /\ SplitStepped =>
             LET line == lines[s_idx + 1]
                 player == current_course_basename \o line.value
             IN  /\ (line.kind = "start" /\ line.value \in {"P1", "P2"}) =>
                       /\ \A f \in {"level", "score_init", "score_diff", "balloon"} :
                            CoursesAfter[player][f] = Courses[current_course_basename][f]
                       /\ CoursesAfter[player].data = <<StartLine("")>>
                       /\ \A c \in DOMAIN Courses \ {player} :
                            CoursesAfter[c] = Courses[c]
                 /\ (CourseLine(line) /\ parsed_tja # <<>>) =>
                       /\ DOMAIN CoursesAfter = DOMAIN Courses
                       /\ \A c \in DOMAIN Courses \ {current_course} :
                            CoursesAfter[c] = Courses[c]
        /\ (s_pc = "lines" /\ s_pc' = "done") =>
             \A c \in DOMAIN CoursesAfter :
                 LET p1 == c \o "P1"
                 IN  p1 \in DOMAIN CoursesAfter =>
                       /\ CoursesAfter[p1] = Courses[p1]
                       /\ Courses[c].data = <<>> => CoursesAfter[c] = Courses[p1]
      ]_vars

\* LEVEL:5 was given to the Oni course, #START P1 made OniP1 from it, a data
\* line went to OniP1 only, and the post-pass filled Oni from OniP1.
C13_Witness ==
    /\ s_pc = "done"
    /\ Len(lines) = 6
    /\ lines[4] = MetaLine("LEVEL", "5")
    /\ lines[5] = StartLine("P1")
    /\ lines[6] = OtherLine("1010,")
    /\ Courses["OniP1"].level = 5
    /\ Courses["OniP1"].data = <<StartLine(""), OtherLine("1010,")>>
    /\ Courses["Oni"] = Courses["OniP1"]

\* the course has no data but its P1 course has.
FilledFromP1(courses, c) ==
    /\ courses[c].data = <<>>
    /\ (c \o "P1") \in DOMAIN courses
    /\ courses[c \o "P1"].data # <<>>

\* C16: when the splitter returns, every course of the song has data; a
\* course that had accumulated none while its P1 course had some is present
\* with the data of the P1 course; a course that had data is present as it
\* was; every other course is absent.
C16_ReturnedCoursesHaveData ==
    [][ (s_pc = "lines" /\ s_pc' = "done") =>
          /\ \A c \in DOMAIN CoursesAfter : CoursesAfter[c].data # <<>>
          /\ \A c \in DOMAIN Courses :
               IF Courses[c].data # <<>>
               THEN c \in DOMAIN CoursesAfter /\ CoursesAfter[c] = Courses[c]
               ELSE IF FilledFromP1(Courses, c)
               THEN /\ c \in DOMAIN CoursesAfter
                    /\ CoursesAfter[c].data = Courses[c \o "P1"].data
               ELSE c \notin DOMAIN CoursesAfter
          /\ DOMAIN CoursesAfter \subseteq DOMAIN Courses
      ]_vars

\* only OniP1 received data: the song is returned with Oni, holding the data
\* of OniP1, and OniP1, and with no other course.
C16_Witness ==
    /\ s_pc = "done"
    /\ Len(lines) = 5
    /\ lines[4] = StartLine("P1")
    /\ lines[5] = OtherLine("1010,")
    /\ DOMAIN Courses = {"Oni", "OniP1"}
    /\ Courses["Oni"].data = <<StartLine(""), OtherLine("1010,")>>
    /\ Courses["OniP1"].data = Courses["Oni"].data

\* ========================================================================
\* Properties of parse_fumen followed by write_fumen
\* ========================================================================
\* every note parse_fumen has read.
NotesRead ==
    UNION { Range(m.branches[b].notes) : m \in Range(song.measures), b \in AllBranches }

\* the chart read was well-formed: the header and exactly the declared number
\* of measures, every record and every drumroll's 8 trailing bytes complete.
WellFormed ==
    /\ ~h_short
    /\ k_pos = Len(file)
    /\ Len(song.header.raw_bytes) = HeaderSize
    /\ Len(song.measures) = song.header.b512_b515_number_of_measures
    /\ \A n \in NotesRead : Len(n.drumroll_bytes) = 8

\* C1: parse_fumen followed by write_fumen writes exactly the bytes of every
\* well-formed chart.
C1_RoundTrip == (k_pc = "done" /\ WellFormed) => file_out = file

\* C2: parse_fumen followed by write_fumen writes exactly the bytes of a
\* chart that ends inside its records (read_struct has completed a short read
\* with zeros).
C2_TruncatedRoundTrip == (k_pc = "done" /\ h_short) => file_out = file

\* C2, amended: for a chart that ends where read_struct reads a record, the
\* bytes written are not the chart's: every record read is written at its
\* full size, so the output is longer than the chart, and every byte of it
\* past the chart's length is zero.
C2_TruncatedIsCompleted ==
    (k_pc = "done" /\ h_short) =>
        /\ Len(file_out) > Len(file)
        /\ \A i \in (Len(file) + 1)..Len(file_out) : file_out[i] = 0

\* a chart that ends inside a note record, after the note's type, has been
\* read and written.
C2_Witness ==
    /\ k_pc = "done"
    /\ h_short
    /\ Len(song.measures) = 2
    /\ Last(song.measures).branches["normal"].length = 1
    /\ (Len(file_out) - Len(file)) \in 17..35    \* 1..19 bytes of the note, 16 of the branches

\* ========================================================================
\* Properties of preprocessTJAMeasures and convertTJAToFumen
\* ========================================================================
\* preprocessTJAMeasures has returned (its result is in tja['measures']).
Preprocessed == c_pc \notin {"idle", "start"}

BpmAtZero(m) == SelectSeq(m.events, LAMBDA e : e.name = "bpm" /\ e.position = 0)

BpmLater(m) == SelectSeq(m.events, LAMBDA e : e.name = "bpm" /\ e.position # 0)

RECURSIVE SubMeasuresBefore(_, _)
\* how many sub-measures the measures before measure j are split into.
SubMeasuresBefore(ms, j) ==
    IF j = 1 THEN 0
    ELSE SubMeasuresBefore(ms, j - 1) + 1 + Len(BpmLater(ms[j - 1]))

\* C7: a bpm event at position 0 of a measure changes the BPM of the open
\* sub-measure and creates none: the measure's first sub-measure starts at 0
\* and carries the new BPM (the running BPM when there is no such event). A
\* bpm event at a non-zero position p closes the open sub-measure at
\* pos_end = p and opens one with pos_start = p and the new BPM, so a measure
\* has one sub-measure more than it has such events, the last one ending at
\* the measure's number of subdivisions.
C7_BpmEventSplitsMeasure ==
    Preprocessed =>
      LET in == tja_in.measures
          out == tja.measures
      IN  /\ Len(out) = SubMeasuresBefore(in, Len(in) + 1)
          /\ \A j \in 1..Len(in) :
               LET first == SubMeasuresBefore(in, j) + 1
                   later == BpmLater(in[j])
               IN  /\ out[first].pos_start = 0
                   /\ BpmAtZero(in[j]) # <<>>
                        => out[first].bpm = Last(BpmAtZero(in[j])).value
                   /\ BpmAtZero(in[j]) = <<>> /\ first > 1
                        => out[first].bpm = out[first - 1].bpm
                   /\ \A k \in 1..Len(later) :
                        /\ out[first + k - 1].pos_end = later[k].position
                        /\ out[first + k].pos_start = later[k].position
                        /\ out[first + k].bpm = later[k].value
                   /\ out[first + Len(later)].pos_end = Len(in[j].data)

\* a chart whose 8-subdivision measure has a bpm event at position 4 and
\* follows a measure with a bpm event at position 0 has been preprocessed.
C7_Witness ==
    /\ Preprocessed
    /\ \E j \in 2..Len(tja_in.measures) :
         /\ BpmAtZero(tja_in.measures[j - 1]) # <<>>
         /\ Len(tja_in.measures[j].data) = 8
         /\ \E e \in Range(BpmLater(tja_in.measures[j])) : e.position = 4
         /\ LET first == SubMeasuresBefore(tja_in.measures, j) + 1
            IN  /\ tja.measures[first].bpm # tja.measures[first + 1].bpm
                /\ tja.measures[first + 1].pos_end = 8

\* the note a closed drumroll or balloon is, by the place it was emitted at.
ClosedNote(r) == tjaConverted.measures[r.start[1]].normal.notes[r.start[2]]

\* C8: a balloon or drumroll started at position s of sub-measure N and closed
\* by its end marker at position e of sub-measure N+2 is flagged multimeasure
\* and lasts int((base duration of N - s) + base duration of N+1 + e); one
\* closed in the sub-measure it started in lasts int(e - s) and is not
\* flagged; either way the duration is a whole number of milliseconds.
C8_DrumrollDuration ==
    \A r \in Range(h_ends) :
       LET n == ClosedNote(r)
           N == r.start[1]
       IN  /\ r.end = N
                => /\ n.duration = FloatInt(r.pos - n.pos)
                   /\ "multimeasure" \notin DOMAIN n
           /\ r.end = N + 2
                => /\ "multimeasure" \in DOMAIN n
                   /\ n.multimeasure
                   /\ n.duration =
                        FloatInt((h_base[N] - n.pos) + h_base[N + 1] + r.pos)
           /\ r.end \in {N, N + 2} => n.duration % Scale = 0

\* a conversion has closed one note two sub-measures after its start and
\* another in the sub-measure it started in, the latter at a distance that is
\* not a whole number of milliseconds.
C8_Witness ==
    /\ c_pc = "done"
    /\ \E r \in Range(h_ends) : r.end = r.start[1] + 2 /\ ClosedNote(r).pos > 0
    /\ \E r \in Range(h_ends) :
         /\ r.end = r.start[1]
         /\ (r.pos - ClosedNote(r).pos) % Scale # 0

RECURSIVE EmittedBalloons(_, _)
\* the Balloon and Kusudama notes of the measures i.. of the output, in order.
EmittedBalloons(ms, i) ==
    IF i > Len(ms) THEN <<>>
    ELSE SelectSeq(ms[i].normal.notes, LAMBDA n : n.type \in {"Balloon", "Kusudama"})
           \o EmittedBalloons(ms, i + 1)

\* C10: the k-th emitted Balloon or Kusudama note has the k-th value of the
\* course's BALLOON sequence as its hit count, and the values not yet given
\* to a note are the rest of the sequence: nothing else consumes a value.
C10_BalloonsInOrder ==
    c_pc \in {"measures", "done"} =>
      LET emitted == EmittedBalloons(tjaConverted.measures, 1)
          given == tja_in.metadata.balloon
      IN  /\ Len(emitted) <= Len(given)
          /\ \A k \in 1..Len(emitted) : emitted[k].hits = given[k]
          /\ tja.metadata.balloon = SubSeq(given, Len(emitted) + 1, Len(given))

\* a conversion has emitted two balloon notes around a dropped Kusudama
\* marker and other notes.
C10_Witness ==
    /\ c_pc = "done"
    /\ Len(EmittedBalloons(tjaConverted.measures, 1)) >= 2
    /\ \E j \in 1..Len(tja_in.measures) :
         /\ tja_in.measures[j].data = <<"7", "9">>
         /\ j < Len(tja_in.measures)
    /\ \E m \in Range(tjaConverted.measures) :
         \E n \in Range(m.normal.notes) : n.type = "Don"

\* C14: convertTJAToFumen never modifies the process-wide unknown header
\* template: the bytes at offsets 8, 9 and 20 stay what they were when the
\* module was loaded.
C14_TemplateUnchanged == unknownHeaderSample = unknownHeaderSampleInitial

\* C15: convertTJAToFumen leaves its input unchanged: when it returns, the
\* balloon sequence and the list of measures of the parsed course are what
\* they were when it was called.
C15_InputUnchanged ==
    c_pc = "done" =>
        /\ tja.metadata.balloon = tja_in.metadata.balloon
        /\ tja.measures = tja_in.measures

\* the notes of the sub-measures first..last, in order.
RECURSIVE NotesStored(_, _, _)
NotesStored(out, first, last) ==
    IF first > last THEN <<>>
    ELSE out[first].data \o NotesStored(out, first + 1, last)

\* C20: the sub-measures of a measure of n characters tile [0, n]: the first
\* starts at 0, each starts where the one before it ended, the last ends at
\* n; each carries subdivisions = n and the measure's time signature; there
\* is one more of them than the measure has bpm events at a non-zero
\* position; and every note of the measure is stored once, in order, in a
\* sub-measure with pos_start <= pos < pos_end.
C20_SubMeasuresTile ==
    Preprocessed =>
      LET in == tja_in.measures
          out == tja.measures
      IN  /\ Len(out) = SubMeasuresBefore(in, Len(in) + 1)
          /\ \A j \in 1..Len(in) :
               LET first == SubMeasuresBefore(in, j) + 1
                   last == SubMeasuresBefore(in, j + 1)
                   n == Len(in[j].data)
               IN  /\ last - first + 1 = 1 + Len(BpmLater(in[j]))
                   /\ out[first].pos_start = 0
                   /\ out[last].pos_end = n
                   /\ \A k \in first + 1..last : out[k].pos_start = out[k - 1].pos_end
                   /\ \A k \in first..last :
                        /\ out[k].subdivisions = n
                        /\ out[k].time_sig = in[j].length
                        /\ \A i \in 1..Len(out[k].data) :
                             /\ out[k].data[i].type = "note"
                             /\ out[k].pos_start <= out[k].data[i].pos
                             /\ out[k].data[i].pos < out[k].pos_end
                   /\ NotesStored(out, first, last) = ConvNotes(in[j].data, 0)

\* a measure of four characters with two bpm events at position 2 and one at
\* position 4 has been split into [0, 2), [2, 2), [2, 4) and [4, 4], its
\* notes stored in the first and the third.
C20_Witness ==
    /\ Preprocessed
    /\ \E j \in 1..Len(tja_in.measures) :
         LET first == SubMeasuresBefore(tja_in.measures, j) + 1
         IN  /\ Len(tja_in.measures[j].data) = 4
             /\ Len(BpmLater(tja_in.measures[j])) = 3
             /\ Len(tja.measures[first].data) = 1
             /\ tja.measures[first + 1].pos_start = tja.measures[first + 1].pos_end
             /\ Len(tja.measures[first + 2].data) = 1
             /\ tja.measures[first + 3].pos_start = 4

\* the gogo events of a measure, in order.
GogoEvents(m) == SelectSeq(m.events, LAMBDA e : e.name = "gogo")

\* C21: after a gogo event with value '0' the open sub-measure's gogo flag is
\* false, after one with value '1' it is true, and the flag stays what the
\* last gogo event made it in every later sub-measure: the last sub-measure
\* of a measure carries the flag of the measure's last gogo event, and every
\* sub-measure of a measure without gogo events carries the flag of the
\* sub-measure before it.
C21_GogoFollowsEvents ==
    Preprocessed =>
      LET in == tja_in.measures
          out == tja.measures
      IN  \A j \in 1..Len(in) :
            LET first == SubMeasuresBefore(in, j) + 1
                last == SubMeasuresBefore(in, j + 1)
            IN  IF GogoEvents(in[j]) # <<>>
                THEN out[last].gogo = (Last(GogoEvents(in[j])).value = "1")
                ELSE \A k \in first..last :
                       out[k].gogo = (IF k = 1 THEN FALSE ELSE out[k - 1].gogo)

\* sub-measures 1..c_idx_m have been converted.
Converting == c_pc \in {"measures", "done"}

RECURSIVE OpenAfter(_, _, _)
\* the type of the sustained note that is open ("" for none) after the first
\* k markers of sub-measure i, a Kusudama being taken over only by a marker
\* that starts another note.
OpenAfter(ms, i, k) ==
    IF k = 0
    THEN (IF i = 1 THEN "" ELSE OpenAfter(ms, i - 1, Len(ms[i - 1].data)))
    ELSE CASE ms[i].data[k].value = "EndDRB" -> ""
           [] ms[i].data[k].value \in {"Balloon", "Kusudama", "Drumroll", "DRUMROLL"}
                -> ms[i].data[k].value
           [] OTHER -> OpenAfter(ms, i, k - 1)

RECURSIVE EmittedTypes(_, _, _)
\* the types of the notes the first k markers of sub-measure i are to give:
\* every marker but the end marker and a Kusudama that meets an open Kusudama.
EmittedTypes(ms, i, k) ==
    IF k = 0 THEN <<>>
    ELSE EmittedTypes(ms, i, k - 1) \o
           (IF \/ ms[i].data[k].value = "EndDRB"
               \/ /\ ms[i].data[k].value = "Kusudama"
                  /\ OpenAfter(ms, i, k - 1) = "Kusudama"
            THEN <<>> ELSE <<ms[i].data[k].value>>)

\* the types of the notes of a converted sub-measure.
TypesOf(measure) ==
    [n \in 1..Len(measure.normal.notes) |-> measure.normal.notes[n].type]

\* C22: a Kusudama marker is dropped exactly when a Kusudama is open; one
\* that arrives while nothing is open, or while a Drumroll or a Balloon is
\* open, is emitted as a note.
C22_KusudamaDroppedWhenKusudamaOpen ==
    Converting =>
      \A i \in 1..c_idx_m :
        TypesOf(tjaConverted.measures[i])
          = EmittedTypes(tja.measures, i, Len(tja.measures[i].data))

\* C23: once two sub-measures are converted, the offset of sub-measure 0 is
\* -1000 times the song offset minus the adjusted duration of sub-measure 1,
\* and the offset of every sub-measure i >= 1 is the offset of sub-measure
\* i-1 plus the adjusted duration of sub-measure i-1 (sub-measure i is
\* tjaConverted.measures[i + 1]; durations in units of 1/Scale ms).
C23_OffsetsChain ==
    (Converting /\ c_idx_m >= 2) =>
      LET out == tjaConverted.measures
      IN  /\ out[1].fumenOffset =
                (-1000) * Scale * tja.metadata.offset
                  - measureDurationOf(tja.measures, 2)
          /\ \A i \in 2..c_idx_m :
                out[i].fumenOffset =
                  out[i - 1].fumenOffset + measureDurationOf(tja.measures, i - 1)

\* a chart with song offset -2 whose second sub-measure is followed by a BPM
\* change (its adjusted duration is not its base duration) has been
\* converted to three sub-measures or more.
C23_Witness ==
    /\ c_pc = "done"
    /\ c_idx_m >= 3
    /\ tja.metadata.offset = -2
    /\ measureDurationOf(tja.measures, 2) # measureDurationBase(tja.measures[2])
    /\ tjaConverted.measures[1].fumenOffset # 0
    /\ tjaConverted.measures[3].fumenOffset # tjaConverted.measures[2].fumenOffset

SustainedTypes == {"Balloon", "Kusudama", "Drumroll", "DRUMROLL"}

RECURSIVE MarkersIn(_, _, _)
\* how many markers of sub-measures 1..n have a value in `values`.
MarkersIn(ms, n, values) ==
    IF n = 0 THEN 0
    ELSE MarkersIn(ms, n - 1, values)
           + Cardinality({k \in DOMAIN ms[n].data : ms[n].data[k].value \in values})

\* the markers of simple notes: all but the start and end markers.
SimpleNotes(ms, n) ==
    Cardinality(UNION {{<<i, k>> : k \in {k \in DOMAIN ms[i].data :
                          ms[i].data[k].value \notin SustainedTypes \cup {"EndDRB"}}} :
                       i \in 1..n})

\* C24 as stated: the note count handed to the soul-gauge lookup leaves out
\* the start markers of drumrolls and balloons and counts their end markers,
\* so that every simple note and every sustained note adds 1.
C24_CountsEndMarkers ==
    c_pc = "done" =>
      /\ total_notes = SimpleNotes(tja.measures, c_idx_m)
                         + MarkersIn(tja.measures, c_idx_m, {"EndDRB"})
      /\ tjaConverted.headerUnknown[20] = computeSoulGaugeByte(total_notes)

\* C24, amended: the note count handed to the soul-gauge lookup leaves out
\* the drumrolls and balloons altogether: a start marker is taken out of the
\* count again and an end marker is never counted, so every simple note adds
\* 1 and every sustained note adds 0.
C24_CountsSimpleNotes ==
    /\ Converting => total_notes = SimpleNotes(tja.measures, c_idx_m)
    /\ c_pc = "done"
         => tjaConverted.headerUnknown[20] = computeSoulGaugeByte(total_notes)

\* a chart with simple notes and a balloon or drumroll that was started and
\* closed has been converted.
C24_Witness ==
    /\ c_pc = "done"
    /\ h_ends # <<>>
    /\ total_notes >= 2
    /\ MarkersIn(tja.measures, c_idx_m, SustainedTypes) >= 1
    /\ tjaConverted.headerUnknown[20] = total_notes

\* the output position of a marker of sub-measure m, from the base duration.
PositionOf(m, d) ==
    (measureDurationBase(m) * (d.pos - m.pos_start)) \div (m.pos_end - m.pos_start)

\* C25: every note emitted into a sub-measure is the note of one of its
\* markers, at baseDuration * (pos - pos_start) / (pos_end - pos_start),
\* which lies in [0, baseDuration); the notes are in the order of their
\* markers, no end marker is among them, every marker that is neither an end
\* marker nor a Kusudama has its note, and the branch's length is the number
\* of notes emitted.
C25_NotePositions ==
    Converting =>
      \A i \in 1..c_idx_m :
        LET m == tja.measures[i]
            branch == tjaConverted.measures[i].normal
            notes == branch.notes
        IN  /\ branch.length = Len(notes)
            /\ \A n \in 1..Len(notes) :
                 /\ notes[n].type # "EndDRB"
                 /\ \E k \in DOMAIN m.data :
                      /\ m.data[k].value = notes[n].type
                      /\ notes[n].pos = PositionOf(m, m.data[k])
                 /\ 0 <= notes[n].pos
                 /\ notes[n].pos < measureDurationBase(m)
                 /\ n > 1 => notes[n - 1].pos < notes[n].pos
            /\ \A k \in DOMAIN m.data :
                 m.data[k].value \notin {"EndDRB", "Kusudama"}
                   => \E n \in 1..Len(notes) :
                        /\ notes[n].type = m.data[k].value
                        /\ notes[n].pos = PositionOf(m, m.data[k])

\* the sub-measure [4, 8) of `10002208`, which a BPM change opens and whose
\* adjusted duration is not its base duration, holds Ka at 0 and Ka at a
\* quarter of its base duration, and not the end marker: its length is 2.
C25_Witness ==
    /\ Converting
    /\ \E i \in 1..(c_idx_m - 1) :
         /\ tja.measures[i].pos_start = 4
         /\ tja.measures[i].pos_end = 8
         /\ measureDurationOf(tja.measures, i) # measureDurationBase(tja.measures[i])
         /\ tjaConverted.measures[i].normal.length = 2
         /\ tjaConverted.measures[i].normal.notes[2].type = "Ka"
         /\ 4 * tjaConverted.measures[i].normal.notes[2].pos
              = measureDurationBase(tja.measures[i])

RECURSIVE IsOpenAfter(_, _, _)
\* a sustained note is open after the first k markers of sub-measure m, one
\* being open before the first iff `open`.
IsOpenAfter(m, k, open) ==
    IF k = 0 THEN open
    ELSE CASE m.data[k].value = "EndDRB" -> FALSE
           [] m.data[k].value \in SustainedTypes -> TRUE
           [] OTHER -> IsOpenAfter(m, k - 1, open)

\* the end markers of sub-measure m that find no sustained note open.
UnopenedEnds(m, open) ==
    {k \in DOMAIN m.data :
        m.data[k].value = "EndDRB" /\ ~IsOpenAfter(m, k - 1, open)}

\* the balloon hit counts run out before marker k of sub-measure m.
BalloonsRunOutBefore(m, k) ==
    Cardinality({j \in 1..(k - 1) : m.data[j].value \in {"Balloon", "Kusudama"}})
        > Len(tja.metadata.balloon)

\* C27: an end marker is applied to an open sustained note only. A
\* sub-measure with an end marker that finds none open aborts the conversion
\* with an error (AttributeError): the sub-measure is not converted and
\* nothing is returned; in a sub-measure that is converted every
\* end marker closes the open note (none is open after it, one more note is
\* closed) and no note of the sub-measure is an end marker.
C27_EndMarkerNeedsOpenNote ==
    [][ (c_pc = "measures" /\ c_idx_m < Len(tja.measures)
           /\ ~DividesByZero(tja.measures, c_idx_m + 1)) =>
          LET m == tja.measures[c_idx_m + 1]
              open == currentDrumroll # <<>>
              unopened == UnopenedEnds(m, open)
              ends == {k \in DOMAIN m.data : m.data[k].value = "EndDRB"}
          IN  /\ unopened # {} =>
                   /\ c_pc' # "measures"
                   /\ c_idx_m' = c_idx_m
                   /\ \/ c_pc' = "AttributeError"
                      \/ \E k \in unopened : BalloonsRunOutBefore(m, k)
              /\ c_pc' = "measures" =>
                   /\ (currentDrumroll' # <<>>) = IsOpenAfter(m, Len(m.data), open)
                   /\ Len(h_ends') = Len(h_ends) + Cardinality(ends)
                   /\ \A n \in DOMAIN tjaConverted'.measures[c_idx_m + 1].normal.notes :
                        tjaConverted'.measures[c_idx_m + 1].normal.notes[n].type # "EndDRB"
      ]_vars

\* a balloon or drumroll has been closed by its end marker, and a later end
\* marker that found nothing open has aborted the conversion.
C27_Witness ==
    /\ c_pc = "AttributeError"
    /\ h_ends # <<>>
    /\ currentDrumroll = <<>>
    /\ \E k \in DOMAIN tja.measures[c_idx_m + 1].data :
         tja.measures[c_idx_m + 1].data[k].value = "EndDRB"

\* ========================================================================
\* Specifications
\* ========================================================================
\* parse_tja_course_data on one course.
InitParser == ParserInit /\ ConvIdle /\ SplitIdle /\ CodecIdle

SpecParser == InitParser /\ [][ParserNext]_vars

\* convertTJAToFumen on one parsed course.
InitConv == ConvInit /\ ParserIdle /\ SplitIdle /\ CodecIdle

SpecConv == InitConv /\ [][ConvNext]_vars

\* split_tja_lines_into_courses on the lines of one file.
InitSplit == SplitInit /\ ParserIdle /\ ConvIdle /\ CodecIdle

SpecSplit == InitSplit /\ [][SplitNext]_vars

\* parse_fumen on one chart, then write_fumen on what it returned.
InitCodec == CodecInit /\ ParserIdle /\ ConvIdle /\ SplitIdle

SpecCodec == InitCodec /\ [][CodecNext]_vars

====
